---- MODULE Spec2Model ----
(***************************************************************************)
(* MiniDB v1: the pager (src/src/pager.c), the leaf-page codec             *)
(* (src/src/table.c) and the table manager (src/src/table_manager.c).      *)
(*                                                                         *)
(* A page is a record of the header fields the codec reads and writes, the *)
(* bitmap as a function from byte index to a byte value 0..255, and the    *)
(* slots as a function from slot index to a payload.  A 128-byte payload   *)
(* is one value of 0..MaxPayload; 0 is the all-zero payload that memset    *)
(* leaves in a deleted slot.  The file is the header of page 0 and the     *)
(* sequence of pages 1..n; the handle is its page_count.                   *)
(***************************************************************************)
EXTENDS Integers, Sequences, FiniteSets, TLC

(***************************************************************************)
(* Bounds of the model.                                                    *)
(*   TABLE_PAGE_SIZE is the leaf geometry of table.c (an #ifndef default   *)
(*   of 4096 there); the model runs the codec on a smaller page so that a  *)
(*   leaf fills after few inserts.  compute_capacity derives the capacity  *)
(*   from it exactly as the code does.                                     *)
(***************************************************************************)
TABLE_PAGE_SIZE == 300
MaxPages == 3
MaxRoot == 2
MaxPayload == 1
MaxFault == 2

(***************************************************************************)
(* Program constants.                                                      *)
(***************************************************************************)
TABLE_PAGE_KIND_LEAF == 1
TABLE_RECORD_SIZE == 128
TABLE_HDR_SIZE == 24

TABLE_OK == 0
TABLE_E_INVAL == -1
TABLE_E_BADKIND == -2
TABLE_E_LAYOUT == -3
TABLE_E_BITMAP == -4
TABLE_E_FULL == -5

PAGER_OK == 0
PAGER_E_IO == -1
PAGER_E_MAGIC == -2
PAGER_E_VERSION == -3
PAGER_E_PAGESIZE == -4
PAGER_E_META == -5
PAGER_E_TRUNCATED == -6
PAGER_E_RANGE == -7

PAGER_PAGE_SIZE == 4096
PAGER_HDR_SIZE == 20
FILE_VERSION == 1
TwoTo16 == 65536

\* n == UINT32_MAX, on the 16-bit halves of n.
is_uint32_max(n) == n \div TwoTo16 = TwoTo16 - 1 /\ n % TwoTo16 = TwoTo16 - 1

\* The result of a loop that never returns (a cyclic chain): not a value the
\* code returns, distinct from every return code.
DIVERGES == 99

Payloads == 0..MaxPayload
Roots == 0..MaxRoot

(***************************************************************************)
(* Bytes and bits.                                                         *)
(***************************************************************************)
Pow2(j) == CASE j = 0 -> 1 [] j = 1 -> 2 [] j = 2 -> 4 [] j = 3 -> 8
             [] j = 4 -> 16 [] j = 5 -> 32 [] j = 6 -> 64 [] j = 7 -> 128
             [] OTHER -> 256

\* (b & (1u << j)) != 0
BitSet(b, j) == (b \div Pow2(j)) % 2 = 1

\* b | (1u << j)
ByteOr(b, j) == IF BitSet(b, j) THEN b ELSE b + Pow2(j)

\* b & (uint8_t)~(1u << j)
ByteAndNot(b, j) == IF BitSet(b, j) THEN b - Pow2(j) ELSE b

(***************************************************************************)
(* Leaf-page codec (table.c).                                              *)
(***************************************************************************)
bitmap_size_bytes(capacity) == (capacity + 7) \div 8

data_offset(capacity) == TABLE_HDR_SIZE + bitmap_size_bytes(capacity)

RECURSIVE capacity_loop(_, _)
capacity_loop(c, record_size) ==
  IF c <= 0 THEN 0
  ELSE IF TABLE_HDR_SIZE + ((c + 7) \div 8) + c * record_size <= TABLE_PAGE_SIZE
       THEN c
       ELSE capacity_loop(c - 1, record_size)

compute_capacity(record_size) ==
  IF record_size <= 0 \/ record_size > TABLE_PAGE_SIZE THEN 0
  ELSE IF TABLE_PAGE_SIZE - TABLE_HDR_SIZE < record_size THEN 0
  ELSE capacity_loop((TABLE_PAGE_SIZE - TABLE_HDR_SIZE) \div record_size, record_size)

\* The geometry of a page of the file: the bitmap bytes and the slots a leaf
\* of the computed capacity holds.
Cap == compute_capacity(TABLE_RECORD_SIZE)
BmBytes == bitmap_size_bytes(Cap)

\* A page of zero bytes (calloc, memset 0).
ZeroPage ==
  [kind |-> 0, record_size |-> 0, capacity |-> 0, used_count |-> 0,
   next_page |-> 0,
   bm |-> [i \in 0..(BmBytes - 1) |-> 0],
   slots |-> [i \in 0..(Cap - 1) |-> 0]]

\* Mutant of all_zero: only the header bytes are tested.
all_zero_header_only(buf) ==
  /\ buf.kind = 0 /\ buf.record_size = 0 /\ buf.capacity = 0
  /\ buf.used_count = 0 /\ buf.next_page = 0

\* for (i < page_sz) if (buf[i] != 0) all_zero = false
all_zero(buf) == buf = ZeroPage

RECURSIVE popcount_byte(_)
popcount_byte(b) == IF b = 0 THEN 0 ELSE (b % 2) + popcount_byte(b \div 2)

RECURSIVE popcount_upto(_, _)
popcount_upto(bm, n) ==
  IF n = 0 THEN 0 ELSE popcount_byte(bm[n - 1]) + popcount_upto(bm, n - 1)

bitmap_popcount(bm, nbytes) == popcount_upto(bm, nbytes)

\* Mutant of tbl_init_leaf: the buffer is not zeroed before the header fields
\* are written.
tbl_init_leaf_no_memset(page, record_size) ==
  IF record_size # TABLE_RECORD_SIZE
  THEN [rc |-> TABLE_E_INVAL, page |-> page]
  ELSE LET capacity == compute_capacity(record_size) IN
       IF capacity = 0
       THEN [rc |-> TABLE_E_LAYOUT, page |-> page]
       ELSE [rc |-> TABLE_OK,
             page |-> [page EXCEPT !.kind = TABLE_PAGE_KIND_LEAF,
                                   !.record_size = record_size,
                                   !.capacity = capacity,
                                   !.used_count = 0,
                                   !.next_page = 0]]

tbl_init_leaf(page, record_size) ==
  IF record_size # TABLE_RECORD_SIZE
  THEN [rc |-> TABLE_E_INVAL, page |-> page]
  ELSE LET capacity == compute_capacity(record_size) IN
       IF capacity = 0
       THEN [rc |-> TABLE_E_LAYOUT, page |-> ZeroPage]
       ELSE [rc |-> TABLE_OK,
             page |-> [ZeroPage EXCEPT !.kind = TABLE_PAGE_KIND_LEAF,
                                       !.record_size = record_size,
                                       !.capacity = capacity,
                                       !.used_count = 0,
                                       !.next_page = 0]]

\* Mutant of tbl_validate: the bits of the last bitmap byte beyond the
\* capacity are not checked.
tbl_validate_no_high_bits(page) ==
  IF page.kind # TABLE_PAGE_KIND_LEAF THEN TABLE_E_BADKIND
  ELSE IF page.record_size # TABLE_RECORD_SIZE THEN TABLE_E_LAYOUT
  ELSE IF page.capacity < 1 \/ page.capacity # compute_capacity(page.record_size)
       THEN TABLE_E_LAYOUT
  ELSE IF page.used_count > page.capacity THEN TABLE_E_LAYOUT
  ELSE LET cap == page.capacity
           bm_bytes == bitmap_size_bytes(cap)
       IN IF bitmap_popcount(page.bm, bm_bytes) # page.used_count
          THEN TABLE_E_BITMAP
          ELSE IF data_offset(cap) + cap * page.record_size > TABLE_PAGE_SIZE
          THEN TABLE_E_LAYOUT
          ELSE TABLE_OK

tbl_validate(page) ==
  IF page.kind # TABLE_PAGE_KIND_LEAF THEN TABLE_E_BADKIND
  ELSE IF page.record_size # TABLE_RECORD_SIZE THEN TABLE_E_LAYOUT
  ELSE IF page.capacity < 1 \/ page.capacity # compute_capacity(page.record_size)
       THEN TABLE_E_LAYOUT
  ELSE IF page.used_count > page.capacity THEN TABLE_E_LAYOUT
  ELSE LET cap == page.capacity
           bm_bytes == bitmap_size_bytes(cap)
           valid_bits_last == cap % 8
       IN IF bitmap_popcount(page.bm, bm_bytes) # page.used_count
          THEN TABLE_E_BITMAP
          ELSE IF data_offset(cap) + cap * page.record_size > TABLE_PAGE_SIZE
          THEN TABLE_E_LAYOUT
          ELSE IF valid_bits_last # 0
                  /\ \E j \in valid_bits_last..7 : BitSet(page.bm[bm_bytes - 1], j)
          THEN TABLE_E_BITMAP
          ELSE TABLE_OK

\* Mutant of tbl_slot_find_free: the index found is returned without the
\* idx < cap test.
tbl_slot_find_free_no_tail_guard(page) ==
  LET cap == page.capacity
      used == page.used_count
      free == {idx \in 0..(8 * bitmap_size_bytes(cap) - 1) :
                 /\ page.bm[idx \div 8] # 255
                 /\ ~BitSet(page.bm[idx \div 8], idx % 8)}
  IN IF cap = 0 \/ used = cap THEN -1
     ELSE IF free = {} THEN -1
     ELSE CHOOSE idx \in free : \A other \in free : idx <= other

\* The lowest idx = 8*i + j with bm[i] != 0xFF, bit j of bm[i] clear and
\* idx < cap: the first hit of the two nested loops.
tbl_slot_find_free(page) ==
  LET cap == page.capacity
      used == page.used_count
      free == {idx \in 0..(8 * bitmap_size_bytes(cap) - 1) :
                 /\ page.bm[idx \div 8] # 255
                 /\ ~BitSet(page.bm[idx \div 8], idx % 8)
                 /\ idx < cap}
  IN IF cap = 0 \/ used = cap THEN -1
     ELSE IF free = {} THEN -1
     ELSE CHOOSE idx \in free : \A other \in free : idx <= other

\* Mutant of tbl_slot_mark_used: the bit is set, used_count is not incremented.
tbl_slot_mark_used_no_count(page, idx) ==
  IF idx < 0 THEN [rc |-> TABLE_E_INVAL, page |-> page]
  ELSE IF page.capacity <= idx THEN [rc |-> TABLE_E_INVAL, page |-> page]
  ELSE IF page.used_count > page.capacity THEN [rc |-> TABLE_E_LAYOUT, page |-> page]
  ELSE IF page.used_count = page.capacity THEN [rc |-> TABLE_E_FULL, page |-> page]
  ELSE IF BitSet(page.bm[idx \div 8], idx % 8) THEN [rc |-> TABLE_E_INVAL, page |-> page]
  ELSE [rc |-> TABLE_OK,
        page |-> [page EXCEPT !.bm[idx \div 8] = ByteOr(@, idx % 8)]]

\* Mutant of tbl_slot_mark_used: used_count is not compared with the
\* capacity.
tbl_slot_mark_used_no_full_check(page, idx) ==
  IF idx < 0 THEN [rc |-> TABLE_E_INVAL, page |-> page]
  ELSE IF page.capacity <= idx THEN [rc |-> TABLE_E_INVAL, page |-> page]
  ELSE IF BitSet(page.bm[idx \div 8], idx % 8) THEN [rc |-> TABLE_E_INVAL, page |-> page]
  ELSE [rc |-> TABLE_OK,
        page |-> [page EXCEPT !.bm[idx \div 8] = ByteOr(@, idx % 8),
                              !.used_count = @ + 1]]

tbl_slot_mark_used(page, idx) ==
  IF idx < 0 THEN [rc |-> TABLE_E_INVAL, page |-> page]
  ELSE IF page.capacity <= idx THEN [rc |-> TABLE_E_INVAL, page |-> page]
  ELSE IF page.used_count > page.capacity THEN [rc |-> TABLE_E_LAYOUT, page |-> page]
  ELSE IF page.used_count = page.capacity THEN [rc |-> TABLE_E_FULL, page |-> page]
  ELSE IF BitSet(page.bm[idx \div 8], idx % 8) THEN [rc |-> TABLE_E_INVAL, page |-> page]
  ELSE [rc |-> TABLE_OK,
        page |-> [page EXCEPT !.bm[idx \div 8] = ByteOr(@, idx % 8),
                              !.used_count = @ + 1]]

\* Mutant of tbl_slot_mark_free: the mask built from the byte index,
\* 1u << (idx / 8), instead of the bit index.
tbl_slot_mark_free_wrong_bit(page, idx) ==
  IF idx < 0 THEN [rc |-> TABLE_E_INVAL, page |-> page]
  ELSE IF page.capacity <= idx THEN [rc |-> TABLE_E_INVAL, page |-> page]
  ELSE IF page.used_count > page.capacity THEN [rc |-> TABLE_E_LAYOUT, page |-> page]
  ELSE IF page.used_count = 0 THEN [rc |-> TABLE_E_INVAL, page |-> page]
  ELSE IF ~BitSet(page.bm[idx \div 8], idx \div 8) THEN [rc |-> TABLE_E_INVAL, page |-> page]
  ELSE [rc |-> TABLE_OK,
        page |-> [page EXCEPT !.bm[idx \div 8] = ByteAndNot(@, idx \div 8),
                              !.used_count = @ - 1]]

tbl_slot_mark_free(page, idx) ==
  IF idx < 0 THEN [rc |-> TABLE_E_INVAL, page |-> page]
  ELSE IF page.capacity <= idx THEN [rc |-> TABLE_E_INVAL, page |-> page]
  ELSE IF page.used_count > page.capacity THEN [rc |-> TABLE_E_LAYOUT, page |-> page]
  ELSE IF page.used_count = 0 THEN [rc |-> TABLE_E_INVAL, page |-> page]
  ELSE IF ~BitSet(page.bm[idx \div 8], idx % 8) THEN [rc |-> TABLE_E_INVAL, page |-> page]
  ELSE [rc |-> TABLE_OK,
        page |-> [page EXCEPT !.bm[idx \div 8] = ByteAndNot(@, idx % 8),
                              !.used_count = @ - 1]]

\* tbl_slot_ptr returns NULL unless 0 <= idx < capacity.
tbl_slot_ptr_ok(page, idx) == idx >= 0 /\ ~(page.capacity <= idx)

\* Mutant of tbl_slot_is_used: the mask built from the byte index,
\* 1u << (idx / 8), instead of the bit index.
tbl_slot_is_used_wrong_bit(page, idx) ==
  IF idx < 0 THEN FALSE
  ELSE IF page.capacity <= idx THEN FALSE
  ELSE BitSet(page.bm[idx \div 8], idx \div 8)

tbl_slot_is_used(page, idx) ==
  IF idx < 0 THEN FALSE
  ELSE IF page.capacity <= idx THEN FALSE
  ELSE BitSet(page.bm[idx \div 8], idx % 8)

\* Mutant of tbl_set_next_page: off by one, the page before the new one.
tbl_set_next_page_previous(page, next_page) ==
  [page EXCEPT !.next_page = next_page - 1]

\* Mutant of tbl_set_next_page: the field is not written.
tbl_set_next_page_skipped(page, next_page) == page

tbl_set_next_page(page, next_page) == [page EXCEPT !.next_page = next_page]

\* Mutant of slot_store: the slot pointer computed without idx (always slot 0).
slot_store_first(page, idx, rec) == [page EXCEPT !.slots[0] = rec]

\* memcpy(tbl_slot_ptr(buf, idx), rec, TABLE_RECORD_SIZE)
slot_store(page, idx, rec) == [page EXCEPT !.slots[idx] = rec]

\* Mutant of slot_zero: the slot pointer computed without idx (always slot 0).
slot_zero_first(page, idx) == [page EXCEPT !.slots[0] = 0]

\* memset(tbl_slot_ptr(buf, idx), 0, TABLE_RECORD_SIZE)
slot_zero(page, idx) == [page EXCEPT !.slots[idx] = 0]

(***************************************************************************)
(* Pager (pager.c).  A pager state ps holds the file (hdr: the header of   *)
(* page 0, pages: pages 1..Len), the handle's page_count (pcount) and nw,  *)
(* the number of write_full calls the current operation has made.  The     *)
(* fault f of an operation names the write_full call that fails (0: none); *)
(* a failed write_full leaves the file as it was.                          *)
(***************************************************************************)
write_fails(ps, f) == ps.nw + 1 = f

pager_page_count(ps) == ps.pcount

\* Mutant of pager_read: the range check lets page_no = page_count through.
pager_read_off_by_one(ps, page_no) ==
  IF page_no > ps.pcount THEN [rc |-> PAGER_E_RANGE, buf |-> ZeroPage]
  ELSE IF page_no = 0 THEN [rc |-> PAGER_OK, buf |-> ps.hdr]
  ELSE IF page_no > Len(ps.pages)
       THEN [rc |-> PAGER_E_IO, buf |-> ZeroPage]
  ELSE [rc |-> PAGER_OK, buf |-> ps.pages[page_no]]

\* Page 0 is the header page: its buffer is the header record.  A page
\* below page_count that the file does not hold is a short read.
pager_read(ps, page_no) ==
  IF page_no >= ps.pcount THEN [rc |-> PAGER_E_RANGE, buf |-> ZeroPage]
  ELSE IF page_no = 0 THEN [rc |-> PAGER_OK, buf |-> ps.hdr]
  ELSE IF page_no > Len(ps.pages)
       THEN [rc |-> PAGER_E_IO, buf |-> ZeroPage]
  ELSE [rc |-> PAGER_OK, buf |-> ps.pages[page_no]]

\* Mutant of pager_write: the result of write_full is dropped.
pager_write_unchecked(ps, page_no, page_buf, f) ==
  IF page_no >= ps.pcount THEN [rc |-> PAGER_E_RANGE, ps |-> ps]
  ELSE IF write_fails(ps, f)
       THEN [rc |-> PAGER_OK, ps |-> [ps EXCEPT !.nw = @ + 1]]
  ELSE IF page_no = 0
       THEN [rc |-> PAGER_OK, ps |-> [ps EXCEPT !.nw = @ + 1, !.hdr = page_buf]]
  ELSE [rc |-> PAGER_OK,
        ps |-> [ps EXCEPT !.nw = @ + 1,
                          !.pages = IF page_no = Len(@) + 1
                                    THEN Append(@, page_buf)
                                    ELSE [@ EXCEPT ![page_no] = page_buf]]]

pager_write(ps, page_no, page_buf, f) ==
  IF page_no >= ps.pcount THEN [rc |-> PAGER_E_RANGE, ps |-> ps]
  ELSE IF write_fails(ps, f)
       THEN [rc |-> PAGER_E_IO, ps |-> [ps EXCEPT !.nw = @ + 1]]
  ELSE IF page_no = 0
       THEN [rc |-> PAGER_OK, ps |-> [ps EXCEPT !.nw = @ + 1, !.hdr = page_buf]]
  ELSE [rc |-> PAGER_OK,
        ps |-> [ps EXCEPT !.nw = @ + 1,
                          !.pages = IF page_no = Len(@) + 1
                                    THEN Append(@, page_buf)
                                    ELSE [@ EXCEPT ![page_no] = page_buf]]]

\* Mutant of pager_alloc_page: the zero page is written at the end of the
\* file (st_size) instead of at page_count * page_size.
pager_alloc_page_at_eof(ps, f) ==
  IF is_uint32_max(ps.pcount) THEN [rc |-> PAGER_E_META, ps |-> ps, page_no |-> 0]
  ELSE LET new_no == ps.pcount IN
       IF write_fails(ps, f)
       THEN [rc |-> PAGER_E_IO, ps |-> [ps EXCEPT !.nw = @ + 1], page_no |-> 0]
       ELSE LET ps1 == [ps EXCEPT !.nw = @ + 1,
                                  !.pages = Append(@, ZeroPage),
                                  !.pcount = @ + 1]
            IN IF write_fails(ps1, f)
               THEN [rc |-> PAGER_E_IO, ps |-> [ps1 EXCEPT !.nw = @ + 1],
                     page_no |-> 0]
               ELSE [rc |-> PAGER_OK,
                     ps |-> [ps1 EXCEPT !.nw = @ + 1,
                                        !.hdr.page_count = ps1.pcount],
                     page_no |-> new_no]

pager_alloc_page(ps, f) ==
  IF is_uint32_max(ps.pcount) THEN [rc |-> PAGER_E_META, ps |-> ps, page_no |-> 0]
  ELSE LET new_no == ps.pcount IN
       IF write_fails(ps, f)
       THEN [rc |-> PAGER_E_IO, ps |-> [ps EXCEPT !.nw = @ + 1], page_no |-> 0]
       ELSE LET ps1 == [ps EXCEPT !.nw = @ + 1,
                                  !.pages = IF new_no = Len(@) + 1
                                            THEN Append(@, ZeroPage)
                                            ELSE [@ EXCEPT ![new_no] = ZeroPage],
                                  !.pcount = @ + 1]
            IN IF write_fails(ps1, f)
               THEN [rc |-> PAGER_E_IO, ps |-> [ps1 EXCEPT !.nw = @ + 1],
                     page_no |-> 0]
               ELSE [rc |-> PAGER_OK,
                     ps |-> [ps1 EXCEPT !.nw = @ + 1,
                                        !.hdr.page_count = ps1.pcount],
                     page_no |-> new_no]

(***************************************************************************)
(* Table manager (table_manager.c).  Each operation is a function of the   *)
(* pager state, its arguments and the fault, and yields the pager state    *)
(* it leaves and what it returns.                                          *)
(***************************************************************************)
\* Mutant of record_id: the two halves swapped, (idx << 16) | page.
record_id_swapped(page, idx) == <<idx % TwoTo16, page % TwoTo16>>

\* A uint32_t record id is the pair of its 16-bit halves <<id >> 16, id & 0xFFFF>>.
\* (page << 16) | idx in uint32_t keeps the low 16 bits of page in the upper half.
record_id(page, idx) == <<page % TwoTo16, idx % TwoTo16>>

\* id >> 16 and (uint16_t)(id & 0xFFFF)
id_page(id) == id[1]
id_slot(id) == id[2]

RECURSIVE create_alloc(_, _, _)
create_alloc(ps, first_page_num, f) ==
  IF first_page_num >= pager_page_count(ps)
  THEN LET a == pager_alloc_page(ps, f) IN
       IF a.rc # PAGER_OK THEN [rc |-> TABLE_E_INVAL, ps |-> a.ps]
       ELSE create_alloc(a.ps, first_page_num, f)
  ELSE [rc |-> TABLE_OK, ps |-> ps]

\* Mutant of create_is_empty_leaf: next_page is not tested.
create_is_empty_leaf_no_next(buf) ==
  /\ buf.record_size = TABLE_RECORD_SIZE
  /\ buf.used_count = 0

\* record_size == TABLE_RECORD_SIZE && used_count == 0 && next_page == 0
create_is_empty_leaf(buf) ==
  /\ buf.record_size = TABLE_RECORD_SIZE
  /\ buf.used_count = 0
  /\ buf.next_page = 0

\* Mutant of tblmgr_create: the initialised leaf is not written back.
tblmgr_create_no_writeback(ps, first_page_num, f) ==
  IF first_page_num = 0 THEN [rc |-> TABLE_E_INVAL, ps |-> ps]
  ELSE LET a == create_alloc(ps, first_page_num, f) IN
  IF a.rc # TABLE_OK THEN a
  ELSE LET r == pager_read(a.ps, first_page_num) IN
  IF r.rc < 0 THEN [rc |-> TABLE_E_INVAL, ps |-> a.ps]
  ELSE IF all_zero(r.buf)
       THEN LET i == tbl_init_leaf(r.buf, TABLE_RECORD_SIZE) IN
            IF i.rc # TABLE_OK THEN [rc |-> i.rc, ps |-> a.ps]
            ELSE IF tbl_validate(i.page) # TABLE_OK
                 THEN [rc |-> tbl_validate(i.page), ps |-> a.ps]
            ELSE [rc |-> TABLE_OK, ps |-> a.ps]
  ELSE IF tbl_validate(r.buf) # TABLE_OK
       THEN [rc |-> tbl_validate(r.buf), ps |-> a.ps]
  ELSE IF create_is_empty_leaf(r.buf)
       THEN [rc |-> TABLE_OK, ps |-> a.ps]
  ELSE [rc |-> TABLE_E_INVAL, ps |-> a.ps]

tblmgr_create(ps, first_page_num, f) ==
  IF first_page_num = 0 THEN [rc |-> TABLE_E_INVAL, ps |-> ps]
  ELSE LET a == create_alloc(ps, first_page_num, f) IN
  IF a.rc # TABLE_OK THEN a
  ELSE LET r == pager_read(a.ps, first_page_num) IN
  IF r.rc < 0 THEN [rc |-> TABLE_E_INVAL, ps |-> a.ps]
  ELSE IF all_zero(r.buf)
       THEN LET i == tbl_init_leaf(r.buf, TABLE_RECORD_SIZE) IN
            IF i.rc # TABLE_OK THEN [rc |-> i.rc, ps |-> a.ps]
            ELSE IF tbl_validate(i.page) # TABLE_OK
                 THEN [rc |-> tbl_validate(i.page), ps |-> a.ps]
            ELSE LET w == pager_write(a.ps, first_page_num, i.page, f) IN
                 IF w.rc # PAGER_OK THEN [rc |-> TABLE_E_INVAL, ps |-> w.ps]
                 ELSE [rc |-> TABLE_OK, ps |-> w.ps]
  ELSE IF tbl_validate(r.buf) # TABLE_OK
       THEN [rc |-> tbl_validate(r.buf), ps |-> a.ps]
  ELSE IF create_is_empty_leaf(r.buf)
       THEN [rc |-> TABLE_OK, ps |-> a.ps]
  ELSE [rc |-> TABLE_E_INVAL, ps |-> a.ps]

\* The id 0: what *out_id holds when insert does not assign it (the callers
\* initialise it to 0).
NoId == <<0, 0>>

\* if (used < cap): store the record in the lowest free slot and write the page.
insert_here(ps, page, buf, rec, f) ==
  LET idx == tbl_slot_find_free(buf) IN
  IF idx < 0 THEN [rc |-> TABLE_E_LAYOUT, ps |-> ps, id |-> NoId]
  ELSE IF ~tbl_slot_ptr_ok(buf, idx) THEN [rc |-> TABLE_E_INVAL, ps |-> ps, id |-> NoId]
  ELSE LET m == tbl_slot_mark_used(slot_store(buf, idx, rec), idx)
           w == pager_write(ps, page, m.page, f)
       IN IF w.rc # PAGER_OK THEN [rc |-> TABLE_E_INVAL, ps |-> w.ps, id |-> NoId]
          ELSE [rc |-> TABLE_OK, ps |-> w.ps, id |-> record_id(page, idx)]

\* Mutant of insert_grow: the new page is not written as an empty leaf; it
\* stays the page of zeros pager_alloc_page wrote.
insert_grow_no_leaf_write(ps, page, buf, f) ==
  LET a == pager_alloc_page(ps, f) IN
  IF a.rc # PAGER_OK THEN [rc |-> TABLE_E_INVAL, ps |-> a.ps, page_no |-> 0]
  ELSE LET i == tbl_init_leaf(ZeroPage, TABLE_RECORD_SIZE) IN
  IF i.rc # TABLE_OK THEN [rc |-> i.rc, ps |-> a.ps, page_no |-> 0]
  ELSE LET w2 == pager_write(a.ps, page, tbl_set_next_page(buf, a.page_no), f) IN
  IF w2.rc # PAGER_OK THEN [rc |-> TABLE_E_INVAL, ps |-> w2.ps, page_no |-> 0]
  ELSE [rc |-> TABLE_OK, ps |-> w2.ps, page_no |-> a.page_no]

\* Mutant of insert_grow: the full page is linked to itself instead of to
\* the new page.
insert_grow_self_link(ps, page, buf, f) ==
  LET a == pager_alloc_page(ps, f) IN
  IF a.rc # PAGER_OK THEN [rc |-> TABLE_E_INVAL, ps |-> a.ps, page_no |-> 0]
  ELSE LET i == tbl_init_leaf(ZeroPage, TABLE_RECORD_SIZE) IN
  IF i.rc # TABLE_OK THEN [rc |-> i.rc, ps |-> a.ps, page_no |-> 0]
  ELSE LET w1 == pager_write(a.ps, a.page_no, i.page, f) IN
  IF w1.rc # PAGER_OK THEN [rc |-> TABLE_E_INVAL, ps |-> w1.ps, page_no |-> 0]
  ELSE LET w2 == pager_write(w1.ps, page, tbl_set_next_page(buf, page), f) IN
  IF w2.rc # PAGER_OK THEN [rc |-> TABLE_E_INVAL, ps |-> w2.ps, page_no |-> 0]
  ELSE [rc |-> TABLE_OK, ps |-> w2.ps, page_no |-> a.page_no]

\* Mutant of insert_grow: the full page is linked to the new page before the
\* new page is written as an empty leaf.
insert_grow_link_first(ps, page, buf, f) ==
  LET a == pager_alloc_page(ps, f) IN
  IF a.rc # PAGER_OK THEN [rc |-> TABLE_E_INVAL, ps |-> a.ps, page_no |-> 0]
  ELSE LET i == tbl_init_leaf(ZeroPage, TABLE_RECORD_SIZE) IN
  IF i.rc # TABLE_OK THEN [rc |-> i.rc, ps |-> a.ps, page_no |-> 0]
  ELSE LET w2 == pager_write(a.ps, page, tbl_set_next_page(buf, a.page_no), f) IN
  IF w2.rc # PAGER_OK THEN [rc |-> TABLE_E_INVAL, ps |-> w2.ps, page_no |-> 0]
  ELSE LET w1 == pager_write(w2.ps, a.page_no, i.page, f) IN
  IF w1.rc # PAGER_OK THEN [rc |-> TABLE_E_INVAL, ps |-> w1.ps, page_no |-> 0]
  ELSE [rc |-> TABLE_OK, ps |-> w1.ps, page_no |-> a.page_no]

\* End of chain and page full: allocate a page, write it as an empty leaf, link
\* the full page to it.  page_no is the page the loop continues on.
insert_grow(ps, page, buf, f) ==
  LET a == pager_alloc_page(ps, f) IN
  IF a.rc # PAGER_OK THEN [rc |-> TABLE_E_INVAL, ps |-> a.ps, page_no |-> 0]
  ELSE LET i == tbl_init_leaf(ZeroPage, TABLE_RECORD_SIZE) IN
  IF i.rc # TABLE_OK THEN [rc |-> i.rc, ps |-> a.ps, page_no |-> 0]
  ELSE LET w1 == pager_write(a.ps, a.page_no, i.page, f) IN
  IF w1.rc # PAGER_OK THEN [rc |-> TABLE_E_INVAL, ps |-> w1.ps, page_no |-> 0]
  ELSE LET w2 == pager_write(w1.ps, page, tbl_set_next_page(buf, a.page_no), f) IN
  IF w2.rc # PAGER_OK THEN [rc |-> TABLE_E_INVAL, ps |-> w2.ps, page_no |-> 0]
  ELSE [rc |-> TABLE_OK, ps |-> w2.ps, page_no |-> a.page_no]

\* The insert loop from `page`; fuel bounds the iterations the model follows.
\* Mutant of insert_loop: a page with room is passed over while the chain
\* goes on; the record is stored in the last page.
RECURSIVE insert_loop_tail_only(_, _, _, _, _)
insert_loop_tail_only(ps, page, rec, f, fuel) ==
  IF fuel = 0 THEN [rc |-> DIVERGES, ps |-> ps, id |-> NoId]
  ELSE LET r == pager_read(ps, page) IN
  IF r.rc # PAGER_OK THEN [rc |-> TABLE_E_INVAL, ps |-> ps, id |-> NoId]
  ELSE IF tbl_validate(r.buf) # TABLE_OK
       THEN [rc |-> tbl_validate(r.buf), ps |-> ps, id |-> NoId]
  ELSE IF r.buf.next_page # 0
       THEN insert_loop_tail_only(ps, r.buf.next_page, rec, f, fuel - 1)
  ELSE IF r.buf.used_count < r.buf.capacity
       THEN insert_here(ps, page, r.buf, rec, f)
  ELSE LET g == insert_grow(ps, page, r.buf, f) IN
       IF g.rc # TABLE_OK THEN [rc |-> g.rc, ps |-> g.ps, id |-> NoId]
       ELSE insert_loop_tail_only(g.ps, g.page_no, rec, f, fuel - 1)

RECURSIVE insert_loop(_, _, _, _, _)
insert_loop(ps, page, rec, f, fuel) ==
  IF fuel = 0 THEN [rc |-> DIVERGES, ps |-> ps, id |-> NoId]
  ELSE LET r == pager_read(ps, page) IN
  IF r.rc # PAGER_OK THEN [rc |-> TABLE_E_INVAL, ps |-> ps, id |-> NoId]
  ELSE IF tbl_validate(r.buf) # TABLE_OK
       THEN [rc |-> tbl_validate(r.buf), ps |-> ps, id |-> NoId]
  ELSE IF r.buf.used_count < r.buf.capacity
       THEN insert_here(ps, page, r.buf, rec, f)
  ELSE IF r.buf.next_page # 0
       THEN insert_loop(ps, r.buf.next_page, rec, f, fuel - 1)
  ELSE LET g == insert_grow(ps, page, r.buf, f) IN
       IF g.rc # TABLE_OK THEN [rc |-> g.rc, ps |-> g.ps, id |-> NoId]
       ELSE insert_loop(g.ps, g.page_no, rec, f, fuel - 1)

\* More iterations than any acyclic chain of the bounded file needs.
Fuel == 2 * MaxPages + 4

\* Mutant of tblmgr_insert: the walk starts at page 1 whatever the root.
tblmgr_insert_from_page_one(ps, root_page_no, rec, f) ==
  IF root_page_no < 1 THEN [rc |-> TABLE_E_INVAL, ps |-> ps, id |-> NoId]
  ELSE insert_loop(ps, 1, rec, f, Fuel)

tblmgr_insert(ps, root_page_no, rec, f) ==
  IF root_page_no < 1 THEN [rc |-> TABLE_E_INVAL, ps |-> ps, id |-> NoId]
  ELSE insert_loop(ps, root_page_no, rec, f, Fuel)

tblmgr_get(ps, id) ==
  LET page_no == id_page(id)
      slot_idx == id_slot(id)
  IN IF page_no = 0 \/ page_no >= pager_page_count(ps)
     THEN [rc |-> TABLE_E_INVAL, written |-> FALSE, out |-> 0]
     ELSE LET r == pager_read(ps, page_no) IN
     IF r.rc # PAGER_OK THEN [rc |-> TABLE_E_INVAL, written |-> FALSE, out |-> 0]
     ELSE IF tbl_validate(r.buf) # TABLE_OK
          THEN [rc |-> tbl_validate(r.buf), written |-> FALSE, out |-> 0]
     ELSE IF slot_idx >= r.buf.capacity
          THEN [rc |-> TABLE_E_INVAL, written |-> FALSE, out |-> 0]
     ELSE IF ~tbl_slot_is_used(r.buf, slot_idx)
          THEN [rc |-> TABLE_E_INVAL, written |-> FALSE, out |-> 0]
     ELSE IF ~tbl_slot_ptr_ok(r.buf, slot_idx)
          THEN [rc |-> TABLE_E_INVAL, written |-> FALSE, out |-> 0]
     ELSE [rc |-> TABLE_OK, written |-> TRUE, out |-> r.buf.slots[slot_idx]]

\* Mutant of tblmgr_update: the page is written back with next_page reset.
tblmgr_update_clears_next(ps, id, rec, f) ==
  LET page_no == id_page(id)
      slot_idx == id_slot(id)
  IN IF page_no = 0 \/ page_no >= pager_page_count(ps)
     THEN [rc |-> TABLE_E_INVAL, ps |-> ps]
     ELSE LET r == pager_read(ps, page_no) IN
     IF r.rc # PAGER_OK THEN [rc |-> TABLE_E_INVAL, ps |-> ps]
     ELSE IF tbl_validate(r.buf) # TABLE_OK
          THEN [rc |-> tbl_validate(r.buf), ps |-> ps]
     ELSE IF slot_idx >= r.buf.capacity THEN [rc |-> TABLE_E_INVAL, ps |-> ps]
     ELSE IF ~tbl_slot_is_used(r.buf, slot_idx) THEN [rc |-> TABLE_E_INVAL, ps |-> ps]
     ELSE IF ~tbl_slot_ptr_ok(r.buf, slot_idx) THEN [rc |-> TABLE_E_INVAL, ps |-> ps]
     ELSE LET w == pager_write(ps, page_no,
                               tbl_set_next_page(slot_store(r.buf, slot_idx, rec), 0), f)
          IN IF w.rc # PAGER_OK THEN [rc |-> TABLE_E_INVAL, ps |-> w.ps]
             ELSE [rc |-> TABLE_OK, ps |-> w.ps]

tblmgr_update(ps, id, rec, f) ==
  LET page_no == id_page(id)
      slot_idx == id_slot(id)
  IN IF page_no = 0 \/ page_no >= pager_page_count(ps)
     THEN [rc |-> TABLE_E_INVAL, ps |-> ps]
     ELSE LET r == pager_read(ps, page_no) IN
     IF r.rc # PAGER_OK THEN [rc |-> TABLE_E_INVAL, ps |-> ps]
     ELSE IF tbl_validate(r.buf) # TABLE_OK
          THEN [rc |-> tbl_validate(r.buf), ps |-> ps]
     ELSE IF slot_idx >= r.buf.capacity THEN [rc |-> TABLE_E_INVAL, ps |-> ps]
     ELSE IF ~tbl_slot_is_used(r.buf, slot_idx) THEN [rc |-> TABLE_E_INVAL, ps |-> ps]
     ELSE IF ~tbl_slot_ptr_ok(r.buf, slot_idx) THEN [rc |-> TABLE_E_INVAL, ps |-> ps]
     ELSE LET w == pager_write(ps, page_no, slot_store(r.buf, slot_idx, rec), f) IN
          IF w.rc # PAGER_OK THEN [rc |-> TABLE_E_INVAL, ps |-> w.ps]
          ELSE [rc |-> TABLE_OK, ps |-> w.ps]

\* Mutant of tblmgr_delete: the page is written once with the slot zeroed
\* and once more with the bit cleared.
tblmgr_delete_two_writes(ps, id, f) ==
  LET page_no == id_page(id)
      slot_idx == id_slot(id)
  IN IF page_no = 0 \/ page_no >= pager_page_count(ps)
     THEN [rc |-> TABLE_E_INVAL, ps |-> ps]
     ELSE LET r == pager_read(ps, page_no) IN
     IF r.rc # PAGER_OK THEN [rc |-> TABLE_E_INVAL, ps |-> ps]
     ELSE IF tbl_validate(r.buf) # TABLE_OK
          THEN [rc |-> tbl_validate(r.buf), ps |-> ps]
     ELSE IF slot_idx >= r.buf.capacity THEN [rc |-> TABLE_E_INVAL, ps |-> ps]
     ELSE IF ~tbl_slot_is_used(r.buf, slot_idx) THEN [rc |-> TABLE_E_INVAL, ps |-> ps]
     ELSE LET z == IF tbl_slot_ptr_ok(r.buf, slot_idx)
                   THEN slot_zero(r.buf, slot_idx) ELSE r.buf
              w1 == pager_write(ps, page_no, z, f)
          IN IF w1.rc # PAGER_OK THEN [rc |-> TABLE_E_INVAL, ps |-> w1.ps]
             ELSE LET m == tbl_slot_mark_free(z, slot_idx)
                      w == pager_write(w1.ps, page_no, m.page, f)
                  IN IF w.rc # PAGER_OK THEN [rc |-> TABLE_E_INVAL, ps |-> w.ps]
                     ELSE [rc |-> TABLE_OK, ps |-> w.ps]

\* Mutant of tblmgr_delete: a page left with no record is unlinked from the
\* page after it (next_page reset).
tblmgr_delete_unlinks(ps, id, f) ==
  LET page_no == id_page(id)
      slot_idx == id_slot(id)
  IN IF page_no = 0 \/ page_no >= pager_page_count(ps)
     THEN [rc |-> TABLE_E_INVAL, ps |-> ps]
     ELSE LET r == pager_read(ps, page_no) IN
     IF r.rc # PAGER_OK THEN [rc |-> TABLE_E_INVAL, ps |-> ps]
     ELSE IF tbl_validate(r.buf) # TABLE_OK
          THEN [rc |-> tbl_validate(r.buf), ps |-> ps]
     ELSE IF slot_idx >= r.buf.capacity THEN [rc |-> TABLE_E_INVAL, ps |-> ps]
     ELSE IF ~tbl_slot_is_used(r.buf, slot_idx) THEN [rc |-> TABLE_E_INVAL, ps |-> ps]
     ELSE LET z == IF tbl_slot_ptr_ok(r.buf, slot_idx)
                   THEN slot_zero(r.buf, slot_idx) ELSE r.buf
              m == tbl_slot_mark_free(z, slot_idx)
              out == IF m.page.used_count = 0
                     THEN tbl_set_next_page(m.page, 0) ELSE m.page
              w == pager_write(ps, page_no, out, f)
          IN IF w.rc # PAGER_OK THEN [rc |-> TABLE_E_INVAL, ps |-> w.ps]
             ELSE [rc |-> TABLE_OK, ps |-> w.ps]

\* Mutant of tblmgr_delete: the slot's bit is not tested before the delete.
tblmgr_delete_no_used_check(ps, id, f) ==
  LET page_no == id_page(id)
      slot_idx == id_slot(id)
  IN IF page_no = 0 \/ page_no >= pager_page_count(ps)
     THEN [rc |-> TABLE_E_INVAL, ps |-> ps]
     ELSE LET r == pager_read(ps, page_no) IN
     IF r.rc # PAGER_OK THEN [rc |-> TABLE_E_INVAL, ps |-> ps]
     ELSE IF tbl_validate(r.buf) # TABLE_OK
          THEN [rc |-> tbl_validate(r.buf), ps |-> ps]
     ELSE IF slot_idx >= r.buf.capacity THEN [rc |-> TABLE_E_INVAL, ps |-> ps]
     ELSE LET z == IF tbl_slot_ptr_ok(r.buf, slot_idx)
                   THEN slot_zero(r.buf, slot_idx) ELSE r.buf
              m == tbl_slot_mark_free(z, slot_idx)
              w == pager_write(ps, page_no, m.page, f)
          IN IF w.rc # PAGER_OK THEN [rc |-> TABLE_E_INVAL, ps |-> w.ps]
             ELSE [rc |-> TABLE_OK, ps |-> w.ps]

tblmgr_delete(ps, id, f) ==
  LET page_no == id_page(id)
      slot_idx == id_slot(id)
  IN IF page_no = 0 \/ page_no >= pager_page_count(ps)
     THEN [rc |-> TABLE_E_INVAL, ps |-> ps]
     ELSE LET r == pager_read(ps, page_no) IN
     IF r.rc # PAGER_OK THEN [rc |-> TABLE_E_INVAL, ps |-> ps]
     ELSE IF tbl_validate(r.buf) # TABLE_OK
          THEN [rc |-> tbl_validate(r.buf), ps |-> ps]
     ELSE IF slot_idx >= r.buf.capacity THEN [rc |-> TABLE_E_INVAL, ps |-> ps]
     ELSE IF ~tbl_slot_is_used(r.buf, slot_idx) THEN [rc |-> TABLE_E_INVAL, ps |-> ps]
     ELSE LET z == IF tbl_slot_ptr_ok(r.buf, slot_idx)
                   THEN slot_zero(r.buf, slot_idx) ELSE r.buf
              m == tbl_slot_mark_free(z, slot_idx)
              w == pager_write(ps, page_no, m.page, f)
          IN IF w.rc # PAGER_OK THEN [rc |-> TABLE_E_INVAL, ps |-> w.ps]
             ELSE [rc |-> TABLE_OK, ps |-> w.ps]

\* The callback of a scan: it returns v (non-zero) at its stop_at-th call and 0
\* at every other call; stop_at = 0 is the callback that always returns 0.
callback_rc(ncalls, stop_at, v) == IF ncalls = stop_at THEN v ELSE 0

\* Mutant of scan_slots: the slots of a page are visited from the highest
\* index down.
RECURSIVE scan_slots_descending(_, _, _, _, _, _)
scan_slots_descending(buf, page, i, calls, stop_at, v) ==
  IF i >= buf.capacity THEN [rc |-> 0, calls |-> calls]
  ELSE LET j == buf.capacity - 1 - i IN
  IF ~tbl_slot_is_used(buf, j)
       THEN scan_slots_descending(buf, page, i + 1, calls, stop_at, v)
  ELSE LET calls1 == Append(calls, [id |-> record_id(page, j), rec |-> buf.slots[j]])
           cb_rc == callback_rc(Len(calls1), stop_at, v)
       IN IF cb_rc # 0 THEN [rc |-> cb_rc, calls |-> calls1]
          ELSE scan_slots_descending(buf, page, i + 1, calls1, stop_at, v)

\* for (i < cap): the calls made on one page, from slot i on.
RECURSIVE scan_slots(_, _, _, _, _, _)
scan_slots(buf, page, i, calls, stop_at, v) ==
  IF i >= buf.capacity THEN [rc |-> 0, calls |-> calls]
  ELSE IF ~tbl_slot_is_used(buf, i)
       THEN scan_slots(buf, page, i + 1, calls, stop_at, v)
  ELSE LET calls1 == Append(calls, [id |-> record_id(page, i), rec |-> buf.slots[i]])
           cb_rc == callback_rc(Len(calls1), stop_at, v)
       IN IF cb_rc # 0 THEN [rc |-> cb_rc, calls |-> calls1]
          ELSE scan_slots(buf, page, i + 1, calls1, stop_at, v)

\* Mutant of scan_loop: a non-zero callback result leaves the slot loop only
\* (break instead of return); the walk goes on with the next page.
RECURSIVE scan_loop_break(_, _, _, _, _, _)
scan_loop_break(ps, page, calls, stop_at, v, fuel) ==
  IF fuel = 0 THEN [rc |-> DIVERGES, calls |-> calls]
  ELSE LET r == pager_read(ps, page) IN
  IF r.rc # PAGER_OK THEN [rc |-> TABLE_E_INVAL, calls |-> calls]
  ELSE IF tbl_validate(r.buf) # TABLE_OK
       THEN [rc |-> tbl_validate(r.buf), calls |-> calls]
  ELSE IF r.buf.next_page >= pager_page_count(ps) /\ r.buf.next_page # 0
       THEN [rc |-> TABLE_E_LAYOUT, calls |-> calls]
  ELSE LET s == scan_slots(r.buf, page, 0, calls, stop_at, v) IN
       IF r.buf.next_page = 0
       THEN [rc |-> IF s.rc # 0 THEN s.rc ELSE TABLE_OK, calls |-> s.calls]
       ELSE scan_loop_break(ps, r.buf.next_page, s.calls, stop_at, v, fuel - 1)

\* Mutant of scan_loop: next_page is not compared with page_count; the walk
\* goes on to the page it names.
RECURSIVE scan_loop_no_next_check(_, _, _, _, _, _)
scan_loop_no_next_check(ps, page, calls, stop_at, v, fuel) ==
  IF fuel = 0 THEN [rc |-> DIVERGES, calls |-> calls]
  ELSE LET r == pager_read(ps, page) IN
  IF r.rc # PAGER_OK THEN [rc |-> TABLE_E_INVAL, calls |-> calls]
  ELSE IF tbl_validate(r.buf) # TABLE_OK
       THEN [rc |-> tbl_validate(r.buf), calls |-> calls]
  ELSE LET s == scan_slots(r.buf, page, 0, calls, stop_at, v) IN
       IF s.rc # 0 THEN s
       ELSE IF r.buf.next_page = 0 THEN [rc |-> TABLE_OK, calls |-> s.calls]
       ELSE scan_loop_no_next_check(ps, r.buf.next_page, s.calls, stop_at, v, fuel - 1)

RECURSIVE scan_loop(_, _, _, _, _, _)
scan_loop(ps, page, calls, stop_at, v, fuel) ==
  IF fuel = 0 THEN [rc |-> DIVERGES, calls |-> calls]
  ELSE LET r == pager_read(ps, page) IN
  IF r.rc # PAGER_OK THEN [rc |-> TABLE_E_INVAL, calls |-> calls]
  ELSE IF tbl_validate(r.buf) # TABLE_OK
       THEN [rc |-> tbl_validate(r.buf), calls |-> calls]
  ELSE IF r.buf.next_page >= pager_page_count(ps) /\ r.buf.next_page # 0
       THEN [rc |-> TABLE_E_LAYOUT, calls |-> calls]
  ELSE LET s == scan_slots(r.buf, page, 0, calls, stop_at, v) IN
       IF s.rc # 0 THEN s
       ELSE IF r.buf.next_page = 0 THEN [rc |-> TABLE_OK, calls |-> s.calls]
       ELSE scan_loop(ps, r.buf.next_page, s.calls, stop_at, v, fuel - 1)

tblmgr_scan(ps, root_page_no, stop_at, v) ==
  IF root_page_no = 0 THEN [rc |-> TABLE_E_INVAL, calls |-> <<>>]
  ELSE scan_loop(ps, root_page_no, <<>>, stop_at, v, Fuel)

\* Mutant of validate_loop: no range check before the read.
RECURSIVE validate_loop_no_range_check(_, _, _)
validate_loop_no_range_check(ps, page, fuel) ==
  IF fuel = 0 THEN DIVERGES
  ELSE LET r == pager_read(ps, page) IN
  IF r.rc # PAGER_OK THEN TABLE_E_INVAL
  ELSE IF tbl_validate(r.buf) # TABLE_OK THEN tbl_validate(r.buf)
  ELSE IF r.buf.next_page = 0 THEN TABLE_OK
  ELSE validate_loop_no_range_check(ps, r.buf.next_page, fuel - 1)

RECURSIVE validate_loop(_, _, _)
validate_loop(ps, page, fuel) ==
  IF fuel = 0 THEN DIVERGES
  ELSE IF page = 0 \/ page >= pager_page_count(ps) THEN TABLE_E_LAYOUT
  ELSE LET r == pager_read(ps, page) IN
  IF r.rc # PAGER_OK THEN TABLE_E_INVAL
  ELSE IF tbl_validate(r.buf) # TABLE_OK THEN tbl_validate(r.buf)
  ELSE IF r.buf.next_page = 0 THEN TABLE_OK
  ELSE IF r.buf.next_page >= pager_page_count(ps) THEN TABLE_E_LAYOUT
  ELSE validate_loop(ps, r.buf.next_page, fuel - 1)

tblmgr_validate_all(ps, first_page_num) ==
  IF first_page_num = 0 THEN TABLE_E_INVAL
  ELSE validate_loop(ps, first_page_num, Fuel)

(***************************************************************************)
(* State.  hdr, pages: the file; pcount: the handle's page_count.          *)
(* History of the calls, as a caller sees it:                              *)
(*   roots  the roots on which create returned ok;                         *)
(*   live   id -> the last payload a successful insert or update wrote,    *)
(*          for the ids returned by insert and not deleted since;          *)
(*   owner  id -> the root of the insert that returned it;                 *)
(*   last   the last call: its arguments and what it returned.             *)
(***************************************************************************)
VARIABLES hdr, pages, pcount, roots, live, owner, last

file == <<hdr, pages, pcount>>
vars == <<hdr, pages, pcount, roots, live, owner, last>>

\* The pager state an operation starts from.
cur == [hdr |-> hdr, pages |-> pages, pcount |-> pcount, nw |-> 0]

\* The ids a caller passes: every slot of the pages 1..MaxPages-1, and an id
\* on page 0, one on a page >= page_count and one with slot index = capacity.
Ids == {<<pg, s>> : pg \in 1..(MaxPages - 1), s \in 0..(Cap - 1)}
         \cup {<<0, 0>>, <<MaxPages, 0>>, <<1, Cap>>}

NoCall == [op |-> "none", root |-> 0, id |-> NoId, rec |-> 0, rc |-> 0,
           out |-> 0, written |-> FALSE, stop_at |-> 0, v |-> 0, calls |-> <<>>]

\* pager_open of an empty or nonexistent path: one page, the header.
FreshHeader == [magic |-> "MDB1", version |-> FILE_VERSION,
                page_size |-> PAGER_PAGE_SIZE, page_count |-> 1, flags |-> 0]

Init ==
  /\ hdr = FreshHeader
  /\ pages = <<>>
  /\ pcount = 1
  /\ roots = {}
  /\ live = [i \in {} |-> 0]
  /\ owner = [i \in {} |-> 0]
  /\ last = NoCall

SetFile(ps) ==
  /\ hdr' = ps.hdr
  /\ pages' = ps.pages
  /\ pcount' = ps.pcount

MapPut(m, k, x) == [i \in (DOMAIN m) \cup {k} |-> IF i = k THEN x ELSE m[i]]
MapDel(m, k) == [i \in (DOMAIN m) \ {k} |-> m[i]]

Create(R, f) ==
  LET r == tblmgr_create(cur, R, f) IN
  /\ r.ps.pcount <= MaxPages
  /\ SetFile(r.ps)
  /\ roots' = IF r.rc = TABLE_OK THEN roots \cup {R} ELSE roots
  /\ last' = [NoCall EXCEPT !.op = "create", !.root = R, !.rc = r.rc]
  /\ UNCHANGED <<live, owner>>

Insert(R, P, f) ==
  LET r == tblmgr_insert(cur, R, P, f) IN
  /\ r.ps.pcount <= MaxPages
  /\ SetFile(r.ps)
  /\ live' = IF r.rc = TABLE_OK THEN MapPut(live, r.id, P) ELSE live
  /\ owner' = IF r.rc = TABLE_OK THEN MapPut(owner, r.id, R) ELSE owner
  /\ last' = [NoCall EXCEPT !.op = "insert", !.root = R, !.rec = P,
                            !.rc = r.rc, !.id = r.id]
  /\ UNCHANGED roots

Get(id) ==
  LET r == tblmgr_get(cur, id) IN
  /\ last' = [NoCall EXCEPT !.op = "get", !.id = id, !.rc = r.rc,
                            !.out = r.out, !.written = r.written]
  /\ UNCHANGED <<hdr, pages, pcount, roots, live, owner>>

Update(id, P, f) ==
  LET r == tblmgr_update(cur, id, P, f) IN
  /\ SetFile(r.ps)
  /\ live' = IF r.rc = TABLE_OK /\ id \in DOMAIN live THEN MapPut(live, id, P) ELSE live
  /\ last' = [NoCall EXCEPT !.op = "update", !.id = id, !.rec = P, !.rc = r.rc]
  /\ UNCHANGED <<roots, owner>>

Delete(id, f) ==
  LET r == tblmgr_delete(cur, id, f) IN
  /\ SetFile(r.ps)
  /\ live' = IF r.rc = TABLE_OK THEN MapDel(live, id) ELSE live
  /\ owner' = IF r.rc = TABLE_OK THEN MapDel(owner, id) ELSE owner
  /\ last' = [NoCall EXCEPT !.op = "delete", !.id = id, !.rc = r.rc]
  /\ UNCHANGED roots

Scan(R, stop_at, v) ==
  LET r == tblmgr_scan(cur, R, stop_at, v) IN
  /\ last' = [NoCall EXCEPT !.op = "scan", !.root = R, !.rc = r.rc,
                            !.stop_at = stop_at, !.v = v, !.calls = r.calls]
  /\ UNCHANGED <<hdr, pages, pcount, roots, live, owner>>

ValidateAll(R) ==
  /\ last' = [NoCall EXCEPT !.op = "validate_all", !.root = R,
                            !.rc = tblmgr_validate_all(cur, R)]
  /\ UNCHANGED <<hdr, pages, pcount, roots, live, owner>>

Next ==
  \/ \E R \in Roots : Create(R, 0)
  \/ \E R \in Roots, P \in Payloads : Insert(R, P, 0)
  \/ \E id \in Ids : Get(id)
  \/ \E id \in Ids, P \in Payloads : Update(id, P, 0)
  \/ \E id \in Ids : Delete(id, 0)
  \/ \E R \in Roots : Scan(R, 0, 0)
  \/ \E R \in Roots : ValidateAll(R)

Spec == Init /\ [][Next]_vars

(***************************************************************************)
(* pager_open of an existing file: the header is validated, the pages are  *)
(* not, so a page may hold anything.  SamplePages are the page contents    *)
(* the model draws from; the calls that follow are creates.                *)
(***************************************************************************)
EmptyLeaf == tbl_init_leaf(ZeroPage, TABLE_RECORD_SIZE).page

SamplePages ==
  { ZeroPage,
    EmptyLeaf,
    \* a leaf holding one record
    [EmptyLeaf EXCEPT !.used_count = 1, !.bm[0] = 1, !.slots[0] = 1],
    \* an empty leaf that is linked to page 2
    [EmptyLeaf EXCEPT !.next_page = 2],
    \* a wrong kind
    [EmptyLeaf EXCEPT !.kind = 2],
    \* a bitmap bit that used_count does not count
    [EmptyLeaf EXCEPT !.bm[0] = 1],
    \* a wrong capacity
    [EmptyLeaf EXCEPT !.capacity = Cap + 1],
    \* zero header bytes, non-zero bytes after them
    [ZeroPage EXCEPT !.slots[0] = 1] }

RECURSIVE SeqsOfLen(_, _)
SeqsOfLen(S, n) ==
  IF n = 0 THEN {<<>>}
  ELSE {Append(q, x) : q \in SeqsOfLen(S, n - 1), x \in S}

InitOpen ==
  \E n \in 1..MaxPages :
    /\ hdr = [FreshHeader EXCEPT !.page_count = n]
    /\ pages \in SeqsOfLen(SamplePages, n - 1)
    /\ pcount = n
    /\ roots = {}
    /\ live = [i \in {} |-> 0]
    /\ owner = [i \in {} |-> 0]
    /\ last = NoCall

NextOpen == \E R \in Roots : Create(R, 0)

SpecOpen == InitOpen /\ [][NextOpen]_vars

(***************************************************************************)
(* The pager on its own (pager.c): open, close, alloc_page, read, write    *)
(* on files of any content.  A file is its header (the first 20 bytes of   *)
(* page 0) and the pages after page 0; its length is counted in whole      *)
(* pages.  pcount = 0 stands for "no handle" (pager_page_count(NULL) = 0). *)
(***************************************************************************)
FILE_MAGIC == "MDB1"
FILE_MAGIC_LEN == 4

\* The header of a path that does not exist or of a file with no bytes.
NoHeader == [magic |-> "", version |-> 0, page_size |-> 0, page_count |-> 0,
             flags |-> 0]

\* A file that ends inside the header: it holds the magic and nothing after
\* it; -1 stands for a field whose bytes the file does not have.
ShortHeader(m) == [magic |-> m, version |-> -1, page_size |-> -1,
                   page_count |-> -1, flags |-> -1]

\* st.st_size
file_size(fl) ==
  IF fl.hdr = NoHeader THEN 0
  ELSE IF fl.hdr.version = -1 THEN FILE_MAGIC_LEN
  ELSE (Len(fl.pages) + 1) * PAGER_PAGE_SIZE

\* Mutant of validate_header: page_count is not checked.
validate_header_no_count(h) ==
  IF h.magic # FILE_MAGIC THEN PAGER_E_MAGIC
  ELSE IF h.version # FILE_VERSION THEN PAGER_E_VERSION
  ELSE IF h.page_size # PAGER_PAGE_SIZE THEN PAGER_E_PAGESIZE
  ELSE IF h.flags # 0 THEN PAGER_E_META
  ELSE PAGER_OK

validate_header(h) ==
  IF h.magic # FILE_MAGIC THEN PAGER_E_MAGIC
  ELSE IF h.version # FILE_VERSION THEN PAGER_E_VERSION
  ELSE IF h.page_size # PAGER_PAGE_SIZE THEN PAGER_E_PAGESIZE
  ELSE IF h.page_count < 1 THEN PAGER_E_META
  ELSE IF h.flags # 0 THEN PAGER_E_META
  ELSE PAGER_OK

NoHandle(fl, n) == [hdr |-> fl.hdr, pages |-> fl.pages, pcount |-> 0, nw |-> n]

\* Mutant of pager_open: the header written to an empty file has page_count 0.
pager_open_count_zero(fl, f) ==
  LET empty == file_size(fl) = 0 IN
  IF empty /\ write_fails(NoHandle(fl, 0), f)
  THEN [rc |-> PAGER_E_IO, ps |-> NoHandle(fl, 1)]
  ELSE LET fl1 == IF empty
                  THEN [hdr |-> [FreshHeader EXCEPT !.page_count = 0], pages |-> <<>>]
                  ELSE fl
           nw == IF empty THEN 1 ELSE 0
           rc == IF file_size(fl1) < PAGER_HDR_SIZE THEN PAGER_E_IO
                 ELSE validate_header(fl1.hdr)
       IN IF rc # PAGER_OK THEN [rc |-> rc, ps |-> NoHandle(fl1, nw)]
          ELSE IF file_size(fl1) < fl1.hdr.page_size * fl1.hdr.page_count
               THEN [rc |-> PAGER_E_TRUNCATED, ps |-> NoHandle(fl1, nw)]
          ELSE [rc |-> PAGER_OK,
                ps |-> [hdr |-> fl1.hdr, pages |-> fl1.pages,
                        pcount |-> fl1.hdr.page_count, nw |-> nw]]

\* An empty file gets the initial header and the length of one page; then the
\* header is read back (an I/O error when the file ends before its 20 bytes)
\* and validated, and the length compared with
\* page_size * page_count.  (page_count <= LLONG_MAX / page_size holds of
\* every uint32_t page_count once page_size = 4096.)
pager_open(fl, f) ==
  LET empty == file_size(fl) = 0 IN
  IF empty /\ write_fails(NoHandle(fl, 0), f)
  THEN [rc |-> PAGER_E_IO, ps |-> NoHandle(fl, 1)]
  ELSE LET fl1 == IF empty THEN [hdr |-> FreshHeader, pages |-> <<>>] ELSE fl
           nw == IF empty THEN 1 ELSE 0
           rc == IF file_size(fl1) < PAGER_HDR_SIZE THEN PAGER_E_IO
                 ELSE validate_header(fl1.hdr)
       IN IF rc # PAGER_OK THEN [rc |-> rc, ps |-> NoHandle(fl1, nw)]
          ELSE IF file_size(fl1) < fl1.hdr.page_size * fl1.hdr.page_count
               THEN [rc |-> PAGER_E_TRUNCATED, ps |-> NoHandle(fl1, nw)]
          ELSE [rc |-> PAGER_OK,
                ps |-> [hdr |-> fl1.hdr, pages |-> fl1.pages,
                        pcount |-> fl1.hdr.page_count, nw |-> nw]]

\* The file as it is on disk, whatever handle is open on it.
disk == [hdr |-> hdr, pages |-> pages]

\* The headers and pages of the files the pager is opened on.
SampleHeaders ==
  [magic : {FILE_MAGIC, "MDB2"},
   version : {FILE_VERSION, FILE_VERSION + 1},
   page_size : {PAGER_PAGE_SIZE, PAGER_PAGE_SIZE \div 2},
   page_count : 0..MaxPages,
   flags : {0, 1}]

SampleBufs == {ZeroPage, EmptyLeaf}

\* The buffers a caller writes to page 0.
SampleHeaderBufs == {FreshHeader, [FreshHeader EXCEPT !.flags = 1]}

InitPager ==
  /\ \/ hdr = NoHeader /\ pages = <<>>
     \/ /\ hdr \in SampleHeaders
        /\ \E k \in 0..(MaxPages - 1) : pages \in SeqsOfLen(SampleBufs, k)
     \/ /\ hdr \in {ShortHeader(m) : m \in {FILE_MAGIC, "MDB2"}}
        /\ pages = <<>>
  /\ pcount = 0
  /\ roots = {}
  /\ live = [i \in {} |-> 0]
  /\ owner = [i \in {} |-> 0]
  /\ last = NoCall

\* last.written records that the file was empty when pager_open was called.
PagerOpen(f) ==
  LET o == pager_open(disk, f) IN
  /\ pcount = 0
  /\ SetFile(o.ps)
  /\ last' = [NoCall EXCEPT !.op = "open", !.rc = o.rc,
                            !.written = (file_size(disk) = 0)]
  /\ UNCHANGED <<roots, live, owner>>

PagerClose ==
  /\ pcount > 0
  /\ pcount' = 0
  /\ last' = [NoCall EXCEPT !.op = "close"]
  /\ UNCHANGED <<hdr, pages, roots, live, owner>>

PagerAlloc(f) ==
  LET a == pager_alloc_page(cur, f) IN
  /\ pcount > 0
  /\ pcount <= MaxPages
  /\ SetFile(a.ps)
  /\ last' = [NoCall EXCEPT !.op = "alloc", !.rc = a.rc, !.root = a.page_no]
  /\ UNCHANGED <<roots, live, owner>>

PagerRead(page_no) ==
  /\ pcount > 0
  /\ last' = [NoCall EXCEPT !.op = "read", !.root = page_no,
                            !.rc = pager_read(cur, page_no).rc]
  /\ UNCHANGED <<hdr, pages, pcount, roots, live, owner>>

PagerWrite(page_no, buf, f) ==
  LET w == pager_write(cur, page_no, buf, f) IN
  /\ pcount > 0
  /\ SetFile(w.ps)
  /\ last' = [NoCall EXCEPT !.op = "write", !.rc = w.rc]
  /\ UNCHANGED <<roots, live, owner>>

\* The write_full calls of one operation that can fail: pager_open makes one,
\* pager_alloc_page two, pager_write one.
NextPager ==
  \/ \E f \in 0..1 : PagerOpen(f)
  \/ PagerClose
  \/ \E f \in 0..2 : PagerAlloc(f)
  \/ \E page_no \in 0..MaxPages : PagerRead(page_no)
  \/ \E page_no \in 1..MaxPages, buf \in SampleBufs, f \in 0..1 :
       PagerWrite(page_no, buf, f)
  \/ \E buf \in SampleHeaderBufs, f \in 0..1 : PagerWrite(0, buf, f)

SpecPager == InitPager /\ [][NextPager]_vars

(***************************************************************************)
(* The table manager with write failures.                                  *)
(* The operations that change the shape of the file (create, insert,       *)
(* delete) may have one of their first MaxFault write_full calls fail;     *)
(* delete makes one.                                                       *)
(***************************************************************************)
Faults == 0..MaxFault

NextIO ==
  \/ \E R \in Roots, f \in Faults : Create(R, f)
  \/ \E R \in Roots, P \in Payloads, f \in Faults : Insert(R, P, f)
  \/ \E id \in Ids, f \in Faults \cap 0..1 : Delete(id, f)

SpecIO == Init /\ [][NextIO]_vars

(***************************************************************************)
(* Scans whose callback stops: it returns v at its stop_at-th call.        *)
(***************************************************************************)
CallbackValues == {-1, 7}
MaxStop == Cap + 1

NextScan ==
  \/ \E R \in Roots : Create(R, 0)
  \/ \E R \in Roots, P \in Payloads : Insert(R, P, 0)
  \/ \E id \in Ids : Delete(id, 0)
  \/ \E R \in Roots : Scan(R, 0, 0)
  \/ \E R \in 1..MaxRoot, stop_at \in 1..MaxStop, v \in CallbackValues :
       Scan(R, stop_at, v)

SpecScan == Init /\ [][NextScan]_vars

(***************************************************************************)
(* What a caller observes in the current state.                            *)
(***************************************************************************)
\* get(id) returns ok and yields exactly P.
GetYields(id, P) ==
  LET g == tblmgr_get(cur, id) IN g.rc = TABLE_OK /\ g.written /\ g.out = P

\* scan(R) with the callback that always returns 0.
ScanAll(R) == tblmgr_scan(cur, R, 0, 0)

\* The ids of a sequence of callback invocations.
CallIds(calls) == {calls[k].id : k \in 1..Len(calls)}

\* The ids scan(R) passes to the callback.
ScanIds(R) == CallIds(ScanAll(R).calls)

\* Every page number a caller may use as a root of a scan.
PageNos == 1..MaxPages

(***************************************************************************)
(* C1  Insert/get round-trip: when insert(R, P) on a root that create      *)
(* initialised returns ok with id, a get(id) that follows immediately      *)
(* returns ok and yields exactly P.                                        *)
(***************************************************************************)
C1_InsertGetRoundTrip ==
  (last.op = "insert" /\ last.rc = TABLE_OK /\ last.root \in roots)
    => GetYields(last.id, last.rec)

\* An insert that grew the chain of root 1 and stored a non-zero payload.
C1_Witness ==
  /\ last.op = "insert" /\ last.rc = TABLE_OK /\ last.root \in roots
  /\ last.root = 1 /\ id_page(last.id) = 2 /\ last.rec # 0

(***************************************************************************)
(* C2  Record id stability: every id returned by insert and not deleted    *)
(* since keeps yielding, on get, the last payload written to it (by that   *)
(* insert or by the latest update), whatever inserts, updates and deletes  *)
(* of other ids happened in between.                                       *)
(***************************************************************************)
C2_IdStability == \A id \in DOMAIN live : GetYields(id, live[id])

\* A delete of another id of the same page has just succeeded.
C2_Witness ==
  /\ last.op = "delete" /\ last.rc = TABLE_OK
  /\ \E id \in DOMAIN live : id_page(id) = id_page(last.id) /\ live[id] # 0

(***************************************************************************)
(* C3  Delete semantics: an id that delete freed, and that no later insert *)
(* returned again, is not in DOMAIN live; for every such id get fails,     *)
(* update fails for every payload, and no scan, from whatever page it      *)
(* starts, passes the id to the callback.                                  *)
(***************************************************************************)
C3_DeleteSemantics ==
  \A id \in Ids \ DOMAIN live :
    /\ tblmgr_get(cur, id).rc # TABLE_OK
    /\ \A P \in Payloads : tblmgr_update(cur, id, P, 0).rc # TABLE_OK
    /\ \A R \in PageNos : id \notin ScanIds(R)

\* A delete has just succeeded on a page that still holds another record.
C3_Witness ==
  /\ last.op = "delete" /\ last.rc = TABLE_OK /\ last.id \notin DOMAIN live
  /\ \E id \in DOMAIN live : id_page(id) = id_page(last.id)

(***************************************************************************)
(* C4  Update round-trip: in every reachable state, update(id, P') of a    *)
(* live id returns ok, a get in the state it leaves yields exactly P', and *)
(* every scan reports there the same set of ids, with the same number of   *)
(* calls and the same return code, as before the update.                   *)
(***************************************************************************)
C4_UpdateRoundTrip ==
  \A id \in DOMAIN live, P \in Payloads :
    LET u == tblmgr_update(cur, id, P, 0) IN
    /\ u.rc = TABLE_OK
    /\ tblmgr_get(u.ps, id) = [rc |-> TABLE_OK, written |-> TRUE, out |-> P]
    /\ \A R \in PageNos :
         LET before == tblmgr_scan(cur, R, 0, 0)
             after == tblmgr_scan(u.ps, R, 0, 0)
         IN /\ after.rc = before.rc
            /\ CallIds(after.calls) = CallIds(before.calls)
            /\ Len(after.calls) = Len(before.calls)

\* An update has just changed the payload of a record on a two-page chain.
C4_Witness ==
  /\ last.op = "update" /\ last.rc = TABLE_OK /\ last.id \in DOMAIN live
  /\ last.rec # 0 /\ Cardinality(ScanIds(1)) > Cap

\* The pages of the chain that starts at `page`, in chain order, as the file
\* links them: it ends at next_page = 0 or at a page outside the file.
RECURSIVE ChainFrom(_, _, _)
ChainFrom(ps, page, fuel) ==
  IF fuel = 0 \/ page < 1 \/ page >= ps.pcount \/ page > Len(ps.pages) THEN <<>>
  ELSE <<page>> \o (IF ps.pages[page].next_page = 0 THEN <<>>
                    ELSE ChainFrom(ps, ps.pages[page].next_page, fuel - 1))

Chain(R) == ChainFrom(cur, R, Fuel)
ChainPages(R) == {Chain(R)[k] : k \in 1..Len(Chain(R))}

\* scan(R) returns ok and calls the callback exactly once for each id of
\* `expected`, with the id's current payload, and for no other id.
ScanReportsExactly(R, expected) ==
  LET s == ScanAll(R) IN
  /\ s.rc = TABLE_OK
  /\ CallIds(s.calls) = expected
  /\ Len(s.calls) = Cardinality(expected)
  /\ \A k \in 1..Len(s.calls) :
       s.calls[k].id \in DOMAIN live => s.calls[k].rec = live[s.calls[k].id]

SetBits(page) ==
  {idx \in 0..(8 * BmBytes - 1) : BitSet(page.bm[idx \div 8], idx % 8)}

C6_BitmapInvariant ==
  \A pg \in 1..Len(pages) :
    pages[pg].kind = TABLE_PAGE_KIND_LEAF
      => /\ Cardinality(SetBits(pages[pg])) = pages[pg].used_count
         /\ pages[pg].used_count <= pages[pg].capacity
         /\ \A idx \in SetBits(pages[pg]) : idx < pages[pg].capacity

\* A delete has just left a page with slot 0 free and slot 1 used.
C6_Witness ==
  /\ last.op = "delete" /\ last.rc = TABLE_OK
  /\ \E pg \in 1..Len(pages) :
       /\ pages[pg].kind = TABLE_PAGE_KIND_LEAF
       /\ SetBits(pages[pg]) = {1}
       /\ pages[pg].used_count = 1

(***************************************************************************)
(* C7  Chain acyclicity check: for every root on which create returned ok, *)
(* after any inserts, updates and deletes, validate_all(root) terminates   *)
(* and returns ok.                                                         *)
(***************************************************************************)
C7_ValidateAllOk ==
  \A R \in roots : tblmgr_validate_all(cur, R) = TABLE_OK

\* validate_all has just walked a chain of two pages.
C7_Witness ==
  /\ last.op = "validate_all" /\ last.rc = TABLE_OK /\ last.root \in roots
  /\ Len(Chain(last.root)) = 2

ValidEmptyLeaf(page) ==
  /\ tbl_validate(page) = TABLE_OK
  /\ page.used_count = 0
  /\ page.next_page = 0

C9_CreateNeverOverwrites ==
  \A R \in 1..(pcount - 1) :
    (pages[R] # ZeroPage /\ ~ValidEmptyLeaf(pages[R]))
      => LET r == tblmgr_create(cur, R, 0) IN
         /\ r.rc # TABLE_OK
         /\ r.ps = cur

\* create has just refused a leaf that holds a record.
C9_Witness ==
  /\ last.op = "create" /\ last.rc # TABLE_OK
  /\ last.root >= 1 /\ last.root < pcount
  /\ tbl_validate(pages[last.root]) = TABLE_OK
  /\ pages[last.root].used_count > 0

(***************************************************************************)
(* C10  create idempotence: right after a call create(R), R >= 1, a second *)
(* create(R) makes the two calls succeed iff page R is a valid empty leaf  *)
(* after the first; and when the first returned ok, the second returns ok  *)
(* without any write, leaving the file and the handle as they were.        *)
(***************************************************************************)
C10_CreateIdempotent ==
  (last.op = "create" /\ last.root >= 1)
    => LET R == last.root
           second == tblmgr_create(cur, R, 0)
       IN /\ (last.rc = TABLE_OK /\ second.rc = TABLE_OK)
               <=> (R < pcount /\ ValidEmptyLeaf(pages[R]))
          /\ last.rc = TABLE_OK => (second.rc = TABLE_OK /\ second.ps = cur)

\* create has succeeded on both roots; the last call found its page already
\* an empty leaf or made it one.
C10_Witness ==
  /\ last.op = "create" /\ last.rc = TABLE_OK
  /\ roots = {1, 2}
  /\ pages[last.root] = EmptyLeaf

(***************************************************************************)
(* C11  create allocation and initialisation: in every reachable state and *)
(* for every R >= 1, a successful create(R) with R >= page_count leaves    *)
(* page_count = R + 1 in the handle and in the header, every newly         *)
(* allocated page below R all-zero, and page R an empty leaf that passes   *)
(* validate (used_count 0, next_page 0); with R < page_count and page R    *)
(* all-zero it makes page R such a leaf and leaves page_count unchanged.   *)
(* In both cases the pages that existed before, other than R, are          *)
(* unchanged.                                                              *)
(***************************************************************************)
C11_CreateAllocates ==
  \A R \in 1..MaxRoot :
    LET r == tblmgr_create(cur, R, 0)
        fresh == /\ R <= Len(r.ps.pages)
                 /\ tbl_validate(r.ps.pages[R]) = TABLE_OK
                 /\ r.ps.pages[R].kind = TABLE_PAGE_KIND_LEAF
                 /\ r.ps.pages[R].used_count = 0
                 /\ r.ps.pages[R].next_page = 0
                 /\ SetBits(r.ps.pages[R]) = {}
                 /\ \A pg \in 1..Len(pages) : pg # R => r.ps.pages[pg] = pages[pg]
    IN r.rc = TABLE_OK
         => /\ R >= pcount
              => /\ fresh
                 /\ r.ps.pcount = R + 1
                 /\ r.ps.hdr.page_count = R + 1
                 /\ Len(r.ps.pages) = R
                 /\ \A pg \in pcount..(R - 1) : r.ps.pages[pg] = ZeroPage
            /\ (R < pcount /\ pages[R] = ZeroPage)
              => /\ fresh
                 /\ r.ps.pcount = pcount
                 /\ r.ps.hdr = hdr
                 /\ Len(r.ps.pages) = Len(pages)

\* create(2) on the fresh file has just allocated the all-zero page 1 and
\* the leaf page 2.
C11_Witness ==
  /\ last.op = "create" /\ last.rc = TABLE_OK /\ last.root = 2
  /\ roots = {2} /\ pcount = 3
  /\ pages[1] = ZeroPage
  /\ pages[2].kind = TABLE_PAGE_KIND_LEAF

\* The handle and the on-disk header agree on page_count.
Coherent == pcount > 0 /\ hdr.page_count = pcount

(***************************************************************************)
(* C12  alloc_page success: on any open pager with page_count N, a         *)
(* successful alloc_page returns N, leaves page N all-zero on disk (also   *)
(* when the file held pages beyond page N - 1), sets the handle's          *)
(* page_count to N + 1, writes N + 1 to the header's page_count and        *)
(* changes nothing else: no other header field, no other page, and no      *)
(* page beyond N is added or removed.                                      *)
(***************************************************************************)
C12_AllocPageSuccess ==
  pcount > 0
    => LET a == pager_alloc_page(cur, 0) IN
       a.rc = PAGER_OK
         => /\ a.page_no = pcount
            /\ a.ps.pages[pcount] = ZeroPage
            /\ a.ps.pcount = pcount + 1
            /\ a.ps.hdr = [hdr EXCEPT !.page_count = pcount + 1]
            /\ Len(a.ps.pages) = IF Len(pages) >= pcount THEN Len(pages) ELSE pcount
            /\ \A pg \in 1..Len(pages) : pg # pcount => a.ps.pages[pg] = pages[pg]

\* alloc_page has just zeroed page 1 of a file that held two pages beyond
\* its one-page header count; page 2 is as it was.
C12_Witness ==
  /\ last.op = "alloc" /\ last.rc = PAGER_OK /\ last.root = 1
  /\ pcount = 2 /\ hdr.page_count = 2
  /\ pages = <<ZeroPage, EmptyLeaf>>

(***************************************************************************)
(* C13 (as claimed)  alloc_page is all-or-nothing: when one of its writes  *)
(* fails on a pager whose handle and header agree on page_count N, it      *)
(* returns an error and leaves the pager either with N in the handle and   *)
(* in the header, or with N + 1 in both.                                   *)
(***************************************************************************)
C13_AllocAllOrNothing ==
  Coherent
    => \A f \in 1..2 :
         LET a == pager_alloc_page(cur, f) IN
         /\ a.rc # PAGER_OK
         /\ \/ a.ps.pcount = pcount /\ a.ps.hdr.page_count = pcount
            \/ a.ps.pcount = pcount + 1 /\ a.ps.hdr.page_count = pcount + 1

(***************************************************************************)
(* C14 (as claimed)  Header coherence: after every open, alloc_page,       *)
(* create, insert, update or delete that returns success, the header of    *)
(* page 0 is "MDB1", version 1, page_size 4096, page_count N, flags 0,     *)
(* where N is the handle's page_count.                                     *)
(***************************************************************************)
C14_HeaderCoherence ==
  (/\ last.op \in {"open", "alloc", "create", "insert", "update", "delete"}
   /\ last.rc = 0)
    => hdr = [magic |-> "MDB1", version |-> 1, page_size |-> 4096,
              page_count |-> pcount, flags |-> 0]

\* The write_full calls one operation can make: an insert that grows the
\* chain makes five (two in alloc_page, the new leaf, the link, the record).
WriteFaults == 0..5

\* The bit of slot s in the bitmap of a page.
Bit(page, s) == BitSet(page.bm[s \div 8], s % 8)

(***************************************************************************)
(* C20  No partial mutation reported as success: in every state reached    *)
(* with or without write failures, and whichever write of the operation    *)
(* fails, when create, insert, update or delete returns ok every step of   *)
(* it is on disk.  create: page R is a valid empty leaf.  insert: the      *)
(* page of the returned id validates, holds the payload in the slot, the   *)
(* bit is set and used_count is one more than before (1 on a new page,     *)
(* which the former tail links to); mark_used returned ok at its call      *)
(* site.  update: the slot holds the new payload.  delete: the slot is     *)
(* zeroed, the bit cleared, used_count one less; mark_free returned ok at  *)
(* its call site.                                                          *)
(***************************************************************************)
C20_NoPartialMutation ==
  \A f \in WriteFaults :
    /\ \A R \in Roots :
         LET r == tblmgr_create(cur, R, f) IN
         r.rc = TABLE_OK
           => /\ R >= 1 /\ R < r.ps.pcount /\ R <= Len(r.ps.pages)
              /\ ValidEmptyLeaf(r.ps.pages[R])
    /\ \A R \in Roots, P \in Payloads :
         LET r == tblmgr_insert(cur, R, P, f)
             pg == id_page(r.id)
             s == id_slot(r.id)
             old == pg < pcount
             before == IF old THEN pages[pg] ELSE EmptyLeaf
             after == r.ps.pages[pg]
         IN r.rc = TABLE_OK
              => /\ pg >= 1 /\ pg < r.ps.pcount /\ pg <= Len(r.ps.pages)
                 /\ tbl_validate(after) = TABLE_OK
                 /\ after.slots[s] = P
                 /\ Bit(after, s) /\ ~Bit(before, s)
                 /\ after.used_count = before.used_count + 1
                 /\ tbl_slot_mark_used(before, s).rc = TABLE_OK
                 /\ ~old => \E q \in 1..Len(pages) :
                              /\ pages[q].next_page = 0
                              /\ r.ps.pages[q].next_page = pg
    /\ \A id \in Ids, P \in Payloads :
         LET u == tblmgr_update(cur, id, P, f) IN
         u.rc = TABLE_OK
           => /\ u.ps.pages[id_page(id)].slots[id_slot(id)] = P
              /\ Bit(u.ps.pages[id_page(id)], id_slot(id))
    /\ \A id \in Ids :
         LET d == tblmgr_delete(cur, id, f)
             before == pages[id_page(id)]
             after == d.ps.pages[id_page(id)]
         IN d.rc = TABLE_OK
              => /\ after.slots[id_slot(id)] = 0
                 /\ Bit(before, id_slot(id)) /\ ~Bit(after, id_slot(id))
                 /\ after.used_count = before.used_count - 1
                 /\ tbl_slot_mark_free(before, id_slot(id)).rc = TABLE_OK
                 /\ tbl_validate(after) = TABLE_OK

\* An insert has just succeeded on a handle whose page_count a failed
\* alloc_page left ahead of the header's.
C20_Witness ==
  /\ last.op = "insert" /\ last.rc = TABLE_OK
  /\ hdr.page_count < pcount
  /\ pages[id_page(last.id)].slots[id_slot(last.id)] = last.rec
  /\ last.rec # 0

(***************************************************************************)
(* C15 (as claimed)  Open validation: pager_open on a non-empty file       *)
(* succeeds iff magic = "MDB1", version = 1, page_size = 4096,             *)
(* page_count >= 1, flags = 0 and the file holds at least page_count       *)
(* pages (a longer file is accepted); otherwise it fails with the first    *)
(* error in the order bad_magic, bad_version, bad_pagesize, bad_metadata   *)
(* (page_count 0 or flags # 0), truncated_file, and returns no handle.     *)
(***************************************************************************)
ExpectedOpen ==
  IF hdr.magic # "MDB1" THEN PAGER_E_MAGIC
  ELSE IF hdr.version # 1 THEN PAGER_E_VERSION
  ELSE IF hdr.page_size # 4096 THEN PAGER_E_PAGESIZE
  ELSE IF hdr.page_count = 0 \/ hdr.flags # 0 THEN PAGER_E_META
  ELSE IF Len(pages) + 1 < hdr.page_count THEN PAGER_E_TRUNCATED
  ELSE PAGER_OK

OpenReturns(rc) ==
  LET o == pager_open(disk, 0) IN
  /\ o.rc = rc
  /\ o.ps.hdr = hdr /\ o.ps.pages = pages
  /\ o.ps.pcount = IF rc = PAGER_OK THEN hdr.page_count ELSE 0

C15_OpenValidationAnyFile ==
  (pcount = 0 /\ hdr # NoHeader) => OpenReturns(ExpectedOpen)

(***************************************************************************)
(* C15 (amended)  pager_open on a file that holds at least the 20 header   *)
(* bytes succeeds iff magic = "MDB1", version = 1, page_size = 4096,       *)
(* page_count >= 1, flags = 0 and the file holds at least page_count       *)
(* pages (a longer file is accepted), with the header's page_count in the  *)
(* handle; otherwise it fails with the first error in the order bad_magic, *)
(* bad_version, bad_pagesize, bad_metadata, truncated_file.  A non-empty   *)
(* file shorter than 20 bytes fails with io, whatever its magic.  A        *)
(* failed open returns no handle and leaves the file as it was.            *)
(***************************************************************************)
C15_OpenValidation ==
  (pcount = 0 /\ hdr # NoHeader)
    => IF hdr.version = -1 THEN OpenReturns(PAGER_E_IO)
       ELSE OpenReturns(ExpectedOpen)

\* pager_open has just refused, with io, a file that has the right magic and
\* ends before the rest of the header.
C15_Witness ==
  /\ last.op = "open" /\ last.rc = PAGER_E_IO /\ ~last.written
  /\ pcount = 0 /\ hdr = ShortHeader("MDB1")

C17_PageRange ==
  pcount > 0
    => \A page_no \in 0..(MaxPages + 1) :
         \A buf \in (IF page_no = 0 THEN SampleHeaderBufs ELSE SampleBufs) :
           IF page_no >= pcount
           THEN /\ pager_read(cur, page_no).rc = PAGER_E_RANGE
                /\ \A f \in 0..1 :
                     pager_write(cur, page_no, buf, f)
                       = [rc |-> PAGER_E_RANGE, ps |-> cur]
           ELSE LET w == pager_write(cur, page_no, buf, 0) IN
                /\ w.rc = PAGER_OK
                /\ w.ps.pcount = pcount
                /\ pager_read(w.ps, page_no) = [rc |-> PAGER_OK, buf |-> buf]

\* pager_read of page_no = page_count has just failed with page_out_of_range.
C17_Witness ==
  /\ last.op = "read" /\ last.rc = PAGER_E_RANGE
  /\ pcount > 0 /\ last.root = pcount

(***************************************************************************)
(* C19  Scan early stop: in every reachable state and for every root, when *)
(* the callback returns a non-zero v at its n-th invocation, scan makes    *)
(* exactly the first n invocations of the scan whose callback always       *)
(* returns 0, no further one, and returns exactly v; when the callback     *)
(* never returns non-zero (fewer than n records), scan behaves as with the *)
(* callback that always returns 0, which on a created root runs to the end *)
(* of the chain, reports every live record on it and returns ok.           *)
(***************************************************************************)
C19_ScanEarlyStop ==
  \A R \in 1..MaxRoot :
    LET full == tblmgr_scan(cur, R, 0, 0) IN
    /\ R \in roots
         => /\ full.rc = TABLE_OK
            /\ Len(full.calls)
                 = Cardinality({id \in DOMAIN live : id_page(id) \in ChainPages(R)})
    /\ \A stop_at \in 1..MaxStop, v \in CallbackValues :
         LET s == tblmgr_scan(cur, R, stop_at, v) IN
         IF stop_at <= Len(full.calls)
         THEN /\ s.rc = v
              /\ s.calls = SubSeq(full.calls, 1, stop_at)
         ELSE s = full

\* A scan of a two-page chain has just been stopped by its callback at the
\* first record of the second page, one record short of the end.
C19_Witness ==
  /\ last.op = "scan" /\ last.rc = 7 /\ last.v = 7
  /\ last.stop_at = Cap + 1 /\ Len(last.calls) = Cap + 1
  /\ last.root \in roots
  /\ Len(ScanAll(last.root).calls) = Cap + 2

\* The id's page is 0 or >= page_count, or does not validate as a leaf, or
\* the slot is >= capacity, or the slot's bitmap bit is 0.
InvalidId(id) ==
  \/ id_page(id) = 0
  \/ id_page(id) >= pcount
  \/ id_page(id) > Len(pages)
  \/ tbl_validate(pages[id_page(id)]) # TABLE_OK
  \/ id_slot(id) >= pages[id_page(id)].capacity
  \/ ~Bit(pages[id_page(id)], id_slot(id))

(***************************************************************************)
(* C18  Invalid ids are rejected without effect: in every reachable state, *)
(* for every id whose page is 0 or >= page_count, or does not validate as  *)
(* a leaf, or whose slot is >= capacity, or whose bitmap bit is 0: get,    *)
(* update and delete return an error, update and delete make no write and  *)
(* leave file and handle unchanged (whether or not a write would fail),    *)
(* and get does not write its output buffer.                               *)
(***************************************************************************)
C18_InvalidIdsRejected ==
  \A id \in Ids :
    InvalidId(id)
      => /\ tblmgr_get(cur, id).rc # TABLE_OK
         /\ ~tblmgr_get(cur, id).written
         /\ \A f \in 0..1 :
              /\ \A P \in Payloads :
                   /\ tblmgr_update(cur, id, P, f).rc # TABLE_OK
                   /\ tblmgr_update(cur, id, P, f).ps = cur
              /\ tblmgr_delete(cur, id, f).rc # TABLE_OK
              /\ tblmgr_delete(cur, id, f).ps = cur

\* delete has just refused a free slot of a valid leaf that holds a record
\* in its other slot.
C18_Witness ==
  /\ last.op = "delete" /\ last.rc # TABLE_OK
  /\ id_page(last.id) >= 1 /\ id_page(last.id) < pcount
  /\ tbl_validate(pages[id_page(last.id)]) = TABLE_OK
  /\ id_slot(last.id) < pages[id_page(last.id)].capacity
  /\ ~Bit(pages[id_page(last.id)], id_slot(last.id))
  /\ pages[id_page(last.id)].used_count = 1

(***************************************************************************)
(* Record ids on high-numbered pages.  pager_alloc_page hands out every    *)
(* page number below UINT32_MAX, so the insert loop can stop on a page     *)
(* numbered 65536 or more.  The state keeps one page of such a file: the   *)
(* leaf the loop stops on, numbered pcount - 1 (pages = <<that leaf>>).    *)
(***************************************************************************)
MaxWide == 4

\* Page numbers around the 16-bit boundary of the id's page field.
WidePages ==
  (1..MaxWide) \cup ((TwoTo16 - MaxWide)..(TwoTo16 + MaxWide))
    \cup ((2 * TwoTo16)..(2 * TwoTo16 + MaxWide))

InitWide ==
  /\ \E page \in WidePages :
       /\ pcount = page + 1
       /\ hdr = [FreshHeader EXCEPT !.page_count = page + 1]
  /\ pages = <<EmptyLeaf>>
  /\ roots = {}
  /\ live = [i \in {} |-> 0]
  /\ owner = [i \in {} |-> 0]
  /\ last = NoCall

\* The iteration of the insert loop that stores the record: the page has a
\* free slot (used < cap), the record goes to the lowest one, the bit is set,
\* the page is written back and *out_id = (page << 16) | idx.  last.root is
\* the page written, last.out the slot.
InsertAt(P) ==
  LET page == pcount - 1
      buf == pages[1]
      idx == tbl_slot_find_free(buf)
      m == tbl_slot_mark_used(slot_store(buf, idx, P), idx)
  IN /\ tbl_validate(buf) = TABLE_OK
     /\ buf.used_count < buf.capacity
     /\ idx >= 0
     /\ tbl_slot_ptr_ok(buf, idx)
     /\ pages' = <<m.page>>
     /\ last' = [NoCall EXCEPT !.op = "insert", !.root = page, !.out = idx,
                               !.rec = P, !.rc = TABLE_OK,
                               !.id = record_id(page, idx)]
     /\ UNCHANGED <<hdr, pcount, roots, live, owner>>

NextWide == \E P \in Payloads : InsertAt(P)

SpecWide == InitWide /\ [][NextWide]_vars

(***************************************************************************)
(* C21 (as claimed)  Record id packing is never silently truncated: for    *)
(* every page number the pager can hand out, the id a successful insert    *)
(* returns has id >> 16 equal to the page the payload was written to and   *)
(* id & 0xFFFF equal to its slot; on a page numbered above 65535 the id    *)
(* does not lose the high bits of the page number.                         *)
(***************************************************************************)
C21_IdPacking ==
  (last.op = "insert" /\ last.rc = TABLE_OK)
    => /\ id_page(last.id) = last.root
       /\ id_slot(last.id) = last.out

(***************************************************************************)
(* The leaf-page codec on its own (table.c): init_leaf, validate,          *)
(* find_free, mark_used and mark_free on a buffer of any contents.  The    *)
(* state keeps the one in-memory buffer the calls work on, pages[1]; no    *)
(* file is involved.  last.root is the argument of the call (record_size   *)
(* or idx), last.out the index find_free returned.                         *)
(***************************************************************************)
\* compute_capacity for a page of page_size bytes.
RECURSIVE capacity_loop_at(_, _, _)
capacity_loop_at(page_size, c, record_size) ==
  IF c <= 0 THEN 0
  ELSE IF TABLE_HDR_SIZE + ((c + 7) \div 8) + c * record_size <= page_size
       THEN c
       ELSE capacity_loop_at(page_size, c - 1, record_size)

compute_capacity_at(page_size, record_size) ==
  IF record_size <= 0 \/ record_size > page_size THEN 0
  ELSE IF page_size - TABLE_HDR_SIZE < record_size THEN 0
  ELSE capacity_loop_at(page_size, (page_size - TABLE_HDR_SIZE) \div record_size,
                        record_size)

\* The byte values of the bitmap byte: every combination of the slots' bits,
\* bits beyond the capacity, the full byte.
BitmapBytes == (0..7) \cup {128, 255}

\* The record sizes a caller passes to init_leaf besides TABLE_RECORD_SIZE.
OtherRecordSizes == {0, 64, 127, 129, 256}

\* Buffers of any contents: a right and a wrong value of every header
\* field, any bitmap byte, zero and non-zero slot bytes.
CodecBufs ==
  {ZeroPage} \cup
  [kind : {TABLE_PAGE_KIND_LEAF, 2},
   record_size : {TABLE_RECORD_SIZE, 64},
   capacity : 0..(Cap + 1),
   used_count : 0..(Cap + 1),
   next_page : {0, 1},
   bm : [0..(BmBytes - 1) -> BitmapBytes],
   slots : {[i \in 0..(Cap - 1) |-> 0], [i \in 0..(Cap - 1) |-> IF i = 0 THEN 1 ELSE 0]}]

\* The slot indexes a caller passes: below 0, in range, capacity and beyond.
CodecIdx == (-1)..(Cap + 2)

InitCodec ==
  /\ hdr = FreshHeader
  /\ \E b \in CodecBufs : pages = <<b>>
  /\ pcount = 1
  /\ roots = {}
  /\ live = [i \in {} |-> 0]
  /\ owner = [i \in {} |-> 0]
  /\ last = NoCall

CodecInitLeaf(record_size) ==
  LET r == tbl_init_leaf(pages[1], record_size) IN
  /\ pages' = <<r.page>>
  /\ last' = [NoCall EXCEPT !.op = "init_leaf", !.root = record_size, !.rc = r.rc]
  /\ UNCHANGED <<hdr, pcount, roots, live, owner>>

CodecValidate ==
  /\ last' = [NoCall EXCEPT !.op = "validate", !.rc = tbl_validate(pages[1])]
  /\ UNCHANGED <<hdr, pages, pcount, roots, live, owner>>

CodecFindFree ==
  /\ last' = [NoCall EXCEPT !.op = "find_free", !.out = tbl_slot_find_free(pages[1])]
  /\ UNCHANGED <<hdr, pages, pcount, roots, live, owner>>

CodecMarkUsed(idx) ==
  LET m == tbl_slot_mark_used(pages[1], idx) IN
  /\ pages' = <<m.page>>
  /\ last' = [NoCall EXCEPT !.op = "mark_used", !.root = idx, !.rc = m.rc]
  /\ UNCHANGED <<hdr, pcount, roots, live, owner>>

CodecMarkFree(idx) ==
  LET m == tbl_slot_mark_free(pages[1], idx) IN
  /\ pages' = <<m.page>>
  /\ last' = [NoCall EXCEPT !.op = "mark_free", !.root = idx, !.rc = m.rc]
  /\ UNCHANGED <<hdr, pcount, roots, live, owner>>

NextCodec ==
  \/ CodecInitLeaf(TABLE_RECORD_SIZE)
  \/ \E record_size \in OtherRecordSizes : CodecInitLeaf(record_size)
  \/ CodecValidate
  \/ CodecFindFree
  \/ \E idx \in CodecIdx : CodecMarkUsed(idx)
  \/ \E idx \in CodecIdx : CodecMarkFree(idx)

SpecCodec == InitCodec /\ [][NextCodec]_vars

\* 24 + ceil(C / 8) + 128 * C <= page_size
FitsIn(C, page_size) ==
  TABLE_HDR_SIZE + ((C + 7) \div 8) + TABLE_RECORD_SIZE * C <= page_size

\* C is the largest integer >= 1 that fits; no C above page_size / 128 does.
IsLargestCapacity(C, page_size) ==
  /\ C >= 1
  /\ FitsIn(C, page_size)
  /\ \A D \in (C + 1)..(page_size \div TABLE_RECORD_SIZE + 1) : ~FitsIn(D, page_size)

\* The capacity of the 4096-byte page of the file format.
Capacity4096 == compute_capacity_at(PAGER_PAGE_SIZE, TABLE_RECORD_SIZE)

(***************************************************************************)
(* C22  Fresh leaf: init_leaf(buf, 128) on a buffer of any contents        *)
(* returns ok and leaves a page that passes validate, on which find_free   *)
(* returns 0, with kind 1, record_size 128, used_count 0, next_page 0, a   *)
(* zero bitmap, zero slots, and the capacity that is the largest C >= 1    *)
(* with 24 + ceil(C/8) + 128*C <= page size; for the 4096-byte page that   *)
(* capacity is 31.  init_leaf with any other record_size returns invalid.  *)
(***************************************************************************)
C22_FreshLeaf ==
  LET buf == pages[1]
      r == tbl_init_leaf(buf, TABLE_RECORD_SIZE)
  IN /\ r.rc = TABLE_OK
     /\ tbl_validate(r.page) = TABLE_OK
     /\ tbl_slot_find_free(r.page) = 0
     /\ r.page.kind = 1 /\ r.page.record_size = 128
     /\ r.page.used_count = 0
     /\ r.page.next_page = 0
     /\ \A i \in DOMAIN r.page.bm : r.page.bm[i] = 0
     /\ \A i \in DOMAIN r.page.slots : r.page.slots[i] = 0
     /\ IsLargestCapacity(r.page.capacity, TABLE_PAGE_SIZE)
     /\ r.page.capacity = compute_capacity_at(TABLE_PAGE_SIZE, TABLE_RECORD_SIZE)
     /\ Capacity4096 = 31
     /\ IsLargestCapacity(Capacity4096, PAGER_PAGE_SIZE)
     /\ \A record_size \in OtherRecordSizes :
          tbl_init_leaf(buf, record_size).rc = TABLE_E_INVAL

\* init_leaf(buf, 128) has just returned ok and left the fresh leaf.
C22_Witness ==
  /\ last.op = "init_leaf" /\ last.rc = TABLE_OK /\ last.root = TABLE_RECORD_SIZE
  /\ pages[1] = EmptyLeaf

\* The header fields validate accepts.
HeaderValid(page) ==
  /\ page.kind = 1
  /\ page.record_size = 128
  /\ page.capacity = compute_capacity_at(TABLE_PAGE_SIZE, 128)
  /\ page.used_count <= page.capacity

\* popcount(bitmap) == used_count and no bit set at an index >= capacity.
BitmapValid(page) ==
  /\ Cardinality(SetBits(page)) = page.used_count
  /\ \A idx \in SetBits(page) : idx < page.capacity

(***************************************************************************)
(* C23  validate returns ok exactly for the pages with kind 1, record_size *)
(* 128, capacity equal to the computed value, used_count <= capacity,      *)
(* popcount(bitmap) = used_count and no bit set at an index >= capacity.   *)
(* With such a header, a popcount mismatch or a set bit at an index >=     *)
(* capacity yields the bitmap error; a wrong kind yields bad_kind; with    *)
(* the right kind, a wrong record_size, a wrong capacity or used_count >   *)
(* capacity yields layout.                                                 *)
(***************************************************************************)
C23_ValidateExact ==
  LET buf == pages[1]
      rc == tbl_validate(buf)
  IN /\ rc = TABLE_OK <=> (HeaderValid(buf) /\ BitmapValid(buf))
     /\ (HeaderValid(buf) /\ ~BitmapValid(buf)) => rc = TABLE_E_BITMAP
     /\ buf.kind # 1 => rc = TABLE_E_BADKIND
     /\ (buf.kind = 1 /\ ~HeaderValid(buf)) => rc = TABLE_E_LAYOUT

\* validate has just returned the bitmap error for a page whose popcount
\* equals used_count and whose only fault is a set bit beyond the capacity.
C23_Witness ==
  /\ last.op = "validate" /\ last.rc = TABLE_E_BITMAP
  /\ HeaderValid(pages[1])
  /\ Cardinality(SetBits(pages[1])) = pages[1].used_count
  /\ \E idx \in SetBits(pages[1]) : idx >= pages[1].capacity

\* The indexes in [0, capacity) whose bitmap bit is 0.
FreeSlots(page) == {i \in 0..(page.capacity - 1) : ~Bit(page, i)}

(***************************************************************************)
(* C24  find_free on a leaf page (a buffer that passes validate) returns   *)
(* the lowest index i in [0, capacity) whose bitmap bit is 0, and returns  *)
(* -1 iff used_count = capacity.  On a buffer of any contents it returns   *)
(* -1 or an index in [0, capacity) whose bit is 0 and below which every    *)
(* bit is 1, never an index >= capacity, and -1 when used_count =          *)
(* capacity.  The call leaves the page as it was (CodecFindFree).          *)
(***************************************************************************)
C24_FindFree ==
  LET buf == pages[1]
      i == tbl_slot_find_free(buf)
  IN /\ i = -1 \/ (i \in FreeSlots(buf) /\ \A j \in FreeSlots(buf) : i <= j)
     /\ i < buf.capacity \/ i = -1
     /\ buf.used_count = buf.capacity => i = -1
     /\ tbl_validate(buf) = TABLE_OK
          => /\ i = -1 <=> buf.used_count = buf.capacity
             /\ i = -1 <=> FreeSlots(buf) = {}
     /\ last.op = "find_free"
          => (last.out = i /\ last.out < buf.capacity)

\* find_free has just returned slot 1 of a valid leaf whose slot 0 is used.
C24_Witness ==
  /\ last.op = "find_free" /\ last.out = 1
  /\ tbl_validate(pages[1]) = TABLE_OK
  /\ SetBits(pages[1]) = {0}

\* 0 <= i < capacity
InRange(page, i) == i >= 0 /\ i < page.capacity

(***************************************************************************)
(* C25  Slot marking is guarded, on a buffer of any contents and for any   *)
(* index.  mark_used(buf, i) returns ok iff 0 <= i < capacity, bit i is 0  *)
(* and used_count < capacity, and then sets exactly bit i and increments   *)
(* used_count by 1.  mark_free(buf, i) returns ok only when 0 <= i <       *)
(* capacity, bit i is 1 and used_count > 0 (and always then, unless        *)
(* used_count > capacity), and then clears exactly bit i and decrements    *)
(* used_count by 1.  Otherwise each returns an error and leaves the buffer *)
(* unchanged; mark_used returns, for an index in range, layout when        *)
(* used_count > capacity and full when used_count = capacity, and invalid  *)
(* on every other misuse.                                                  *)
(***************************************************************************)
C25_SlotMarking ==
  LET buf == pages[1] IN
  \A i \in CodecIdx :
    LET u == tbl_slot_mark_used(buf, i)
        f == tbl_slot_mark_free(buf, i)
        use_ok == InRange(buf, i) /\ ~Bit(buf, i) /\ buf.used_count < buf.capacity
        free_ok == InRange(buf, i) /\ Bit(buf, i) /\ buf.used_count > 0
    IN /\ u.rc = TABLE_OK <=> use_ok
       /\ u.rc = TABLE_OK
            => /\ SetBits(u.page) = SetBits(buf) \cup {i}
               /\ u.page.used_count = buf.used_count + 1
               /\ u.page = [buf EXCEPT !.bm = u.page.bm,
                                       !.used_count = u.page.used_count]
       /\ u.rc # TABLE_OK
            => /\ u.page = buf
               /\ u.rc = IF ~InRange(buf, i) THEN TABLE_E_INVAL
                         ELSE IF buf.used_count > buf.capacity THEN TABLE_E_LAYOUT
                         ELSE IF buf.used_count = buf.capacity THEN TABLE_E_FULL
                         ELSE TABLE_E_INVAL
       /\ f.rc = TABLE_OK => free_ok
       /\ (free_ok /\ buf.used_count <= buf.capacity) => f.rc = TABLE_OK
       /\ f.rc = TABLE_OK
            => /\ SetBits(f.page) = SetBits(buf) \ {i}
               /\ f.page.used_count = buf.used_count - 1
               /\ f.page = [buf EXCEPT !.bm = f.page.bm,
                                       !.used_count = f.page.used_count]
       /\ f.rc # TABLE_OK
            => /\ f.page = buf
               /\ f.rc \in {TABLE_E_INVAL, TABLE_E_LAYOUT}

\* mark_used has just refused, with full, a free slot of a page whose
\* used_count equals its capacity.
C25_Witness ==
  /\ last.op = "mark_used" /\ last.rc = TABLE_E_FULL
  /\ InRange(pages[1], last.root) /\ ~Bit(pages[1], last.root)
  /\ pages[1].used_count = pages[1].capacity

(***************************************************************************)
(* Buffers (table_manager.c, pager.c).  For each table-manager function,   *)
(* the exit a call takes (the source line of its return statement) and the *)
(* page-sized buffers the call has acquired and freed when it takes it:    *)
(*   acq, freed     malloc / calloc and free in table_manager.c;           *)
(*   pacq, pfreed   calloc and free in pager_alloc_page.                   *)
(* m names the malloc / calloc call of the function that returns NULL      *)
(* (0: none; 1: the scratch buffer; 2: newbuf of insert).                  *)
(***************************************************************************)
Bufs(exit, acq, freed, pacq, pfreed) ==
  [exit |-> exit, acq |-> acq, freed |-> freed, pacq |-> pacq, pfreed |-> pfreed]

\* pager_alloc_page: the buffer of zeros is freed before each return that
\* follows its calloc.
pager_alloc_page_bufs(ps, f) ==
  IF is_uint32_max(ps.pcount) THEN Bufs(254, 0, 0, 0, 0)
  ELSE IF write_fails(ps, f) THEN Bufs(274, 0, 0, 1, 1)
  ELSE IF write_fails([ps EXCEPT !.nw = @ + 1], f) THEN Bufs(282, 0, 0, 1, 1)
  ELSE Bufs(288, 0, 0, 1, 1)

\* The allocation loop of create: the buffers of its pager_alloc_page calls.
RECURSIVE create_alloc_bufs(_, _, _, _)
create_alloc_bufs(ps, first_page_num, f, b) ==
  IF first_page_num >= pager_page_count(ps)
  THEN LET a == pager_alloc_page(ps, f)
           e == pager_alloc_page_bufs(ps, f)
           b1 == [b EXCEPT !.pacq = @ + e.pacq, !.pfreed = @ + e.pfreed]
       IN IF a.rc # PAGER_OK THEN [ok |-> FALSE, ps |-> a.ps, b |-> b1]
          ELSE create_alloc_bufs(a.ps, first_page_num, f, b1)
  ELSE [ok |-> TRUE, ps |-> ps, b |-> b]

tblmgr_create_bufs(ps, first_page_num, f, m) ==
  IF first_page_num = 0 THEN Bufs(9, 0, 0, 0, 0)
  ELSE LET a == create_alloc_bufs(ps, first_page_num, f, Bufs(0, 0, 0, 0, 0))
           p == a.b.pacq
           q == a.b.pfreed
       IN
  IF ~a.ok THEN Bufs(15, 0, 0, p, q)
  ELSE IF m = 1 THEN Bufs(21, 0, 0, p, q)
  ELSE LET r == pager_read(a.ps, first_page_num) IN
  IF r.rc < 0 THEN Bufs(24, 1, 1, p, q)
  ELSE IF all_zero(r.buf)
       THEN LET i == tbl_init_leaf(r.buf, TABLE_RECORD_SIZE) IN
            IF i.rc # TABLE_OK THEN Bufs(36, 1, 1, p, q)
            ELSE IF tbl_validate(i.page) # TABLE_OK THEN Bufs(39, 1, 1, p, q)
            ELSE IF pager_write(a.ps, first_page_num, i.page, f).rc # PAGER_OK
                 THEN Bufs(42, 1, 1, p, q)
            ELSE Bufs(45, 1, 1, p, q)
  ELSE IF tbl_validate(r.buf) # TABLE_OK THEN Bufs(49, 1, 1, p, q)
  ELSE IF create_is_empty_leaf(r.buf) THEN Bufs(55, 1, 1, p, q)
  ELSE Bufs(59, 1, 1, p, q)

\* Mutant of insert_loop_bufs: newbuf is not freed once the new page is
\* written (no free at line 132).
RECURSIVE insert_loop_bufs_newbuf_kept(_, _, _, _, _, _, _)
insert_loop_bufs_newbuf_kept(ps, page, rec, f, m, fuel, b) ==
  LET Exit(line, frees) == [b EXCEPT !.exit = line, !.freed = @ + frees] IN
  IF fuel = 0 THEN b
  ELSE LET r == pager_read(ps, page) IN
  IF r.rc # PAGER_OK THEN Exit(77, 1)
  ELSE IF tbl_validate(r.buf) # TABLE_OK THEN Exit(81, 1)
  ELSE IF r.buf.used_count < r.buf.capacity
       THEN LET idx == tbl_slot_find_free(r.buf) IN
            IF idx < 0 THEN Exit(90, 1)
            ELSE IF ~tbl_slot_ptr_ok(r.buf, idx) THEN Exit(93, 1)
            ELSE IF insert_here(ps, page, r.buf, rec, f).rc # TABLE_OK
                 THEN Exit(100, 1)
            ELSE Exit(107, 1)
  ELSE IF r.buf.next_page # 0
       THEN insert_loop_bufs_newbuf_kept(ps, r.buf.next_page, rec, f, m, fuel - 1, b)
  ELSE LET a == pager_alloc_page(ps, f)
           e == pager_alloc_page_bufs(ps, f)
           b1 == [b EXCEPT !.pacq = @ + e.pacq, !.pfreed = @ + e.pfreed]
       IN
       IF a.rc # PAGER_OK THEN [b1 EXCEPT !.exit = 120, !.freed = @ + 1]
       ELSE IF m = 2 THEN [b1 EXCEPT !.exit = 124, !.freed = @ + 1]
       ELSE LET b2 == [b1 EXCEPT !.acq = @ + 1]
                i == tbl_init_leaf(ZeroPage, TABLE_RECORD_SIZE)
                w1 == pager_write(a.ps, a.page_no, i.page, f)
            IN
            IF i.rc # TABLE_OK THEN [b2 EXCEPT !.exit = 127, !.freed = @ + 2]
            ELSE IF w1.rc # PAGER_OK THEN [b2 EXCEPT !.exit = 131, !.freed = @ + 2]
            ELSE LET b3 == b2
                     w2 == pager_write(w1.ps, page,
                                       tbl_set_next_page(r.buf, a.page_no), f)
                 IN
                 IF w2.rc # PAGER_OK THEN [b3 EXCEPT !.exit = 137, !.freed = @ + 1]
                 ELSE insert_loop_bufs_newbuf_kept(w2.ps, a.page_no, rec, f, m,
                                                   fuel - 1, b3)

\* The insert loop: buf is freed before every return; newbuf is acquired
\* when a page is appended and freed once the page is written (or before the
\* return, when the initialisation or the write fails).
RECURSIVE insert_loop_bufs(_, _, _, _, _, _, _)
insert_loop_bufs(ps, page, rec, f, m, fuel, b) ==
  LET Exit(line, frees) == [b EXCEPT !.exit = line, !.freed = @ + frees] IN
  IF fuel = 0 THEN b
  ELSE LET r == pager_read(ps, page) IN
  IF r.rc # PAGER_OK THEN Exit(77, 1)
  ELSE IF tbl_validate(r.buf) # TABLE_OK THEN Exit(81, 1)
  ELSE IF r.buf.used_count < r.buf.capacity
       THEN LET idx == tbl_slot_find_free(r.buf) IN
            IF idx < 0 THEN Exit(90, 1)
            ELSE IF ~tbl_slot_ptr_ok(r.buf, idx) THEN Exit(93, 1)
            ELSE IF insert_here(ps, page, r.buf, rec, f).rc # TABLE_OK
                 THEN Exit(100, 1)
            ELSE Exit(107, 1)
  ELSE IF r.buf.next_page # 0
       THEN insert_loop_bufs(ps, r.buf.next_page, rec, f, m, fuel - 1, b)
  ELSE LET a == pager_alloc_page(ps, f)
           e == pager_alloc_page_bufs(ps, f)
           b1 == [b EXCEPT !.pacq = @ + e.pacq, !.pfreed = @ + e.pfreed]
       IN
       IF a.rc # PAGER_OK THEN [b1 EXCEPT !.exit = 120, !.freed = @ + 1]
       ELSE IF m = 2 THEN [b1 EXCEPT !.exit = 124, !.freed = @ + 1]
       ELSE LET b2 == [b1 EXCEPT !.acq = @ + 1]
                i == tbl_init_leaf(ZeroPage, TABLE_RECORD_SIZE)
                w1 == pager_write(a.ps, a.page_no, i.page, f)
            IN
            IF i.rc # TABLE_OK THEN [b2 EXCEPT !.exit = 127, !.freed = @ + 2]
            ELSE IF w1.rc # PAGER_OK THEN [b2 EXCEPT !.exit = 131, !.freed = @ + 2]
            ELSE LET b3 == [b2 EXCEPT !.freed = @ + 1]
                     w2 == pager_write(w1.ps, page,
                                       tbl_set_next_page(r.buf, a.page_no), f)
                 IN
                 IF w2.rc # PAGER_OK THEN [b3 EXCEPT !.exit = 137, !.freed = @ + 1]
                 ELSE insert_loop_bufs(w2.ps, a.page_no, rec, f, m, fuel - 1, b3)

tblmgr_insert_bufs(ps, root_page_no, rec, f, m) ==
  IF root_page_no < 1 THEN Bufs(65, 0, 0, 0, 0)
  ELSE IF m = 1 THEN Bufs(70, 0, 0, 0, 0)
  ELSE insert_loop_bufs(ps, root_page_no, rec, f, m, Fuel, Bufs(0, 1, 0, 0, 0))

\* The scan loop: buf is freed before every return, the return of the
\* callback's non-zero result (line 183) included.
RECURSIVE scan_loop_bufs(_, _, _, _, _, _)
scan_loop_bufs(ps, page, calls, stop_at, v, fuel) ==
  IF fuel = 0 THEN Bufs(0, 1, 0, 0, 0)
  ELSE LET r == pager_read(ps, page) IN
  IF r.rc # PAGER_OK THEN Bufs(163, 1, 1, 0, 0)
  ELSE IF tbl_validate(r.buf) # TABLE_OK THEN Bufs(167, 1, 1, 0, 0)
  ELSE IF r.buf.next_page >= pager_page_count(ps) /\ r.buf.next_page # 0
       THEN Bufs(173, 1, 1, 0, 0)
  ELSE LET s == scan_slots(r.buf, page, 0, calls, stop_at, v) IN
       IF s.rc # 0 THEN Bufs(183, 1, 1, 0, 0)
       ELSE IF r.buf.next_page = 0 THEN Bufs(193, 1, 1, 0, 0)
       ELSE scan_loop_bufs(ps, r.buf.next_page, s.calls, stop_at, v, fuel - 1)

tblmgr_scan_bufs(ps, root_page_no, stop_at, v, m) ==
  IF root_page_no = 0 THEN Bufs(152, 0, 0, 0, 0)
  ELSE IF m = 1 THEN Bufs(156, 0, 0, 0, 0)
  ELSE scan_loop_bufs(ps, root_page_no, <<>>, stop_at, v, Fuel)

\* delete frees buf at line 240, before it tests the result of the write.
tblmgr_delete_bufs(ps, id, f, m) ==
  LET page_no == id_page(id)
      slot_idx == id_slot(id)
  IN IF page_no = 0 \/ page_no >= pager_page_count(ps) THEN Bufs(206, 0, 0, 0, 0)
     ELSE IF m = 1 THEN Bufs(210, 0, 0, 0, 0)
     ELSE LET r == pager_read(ps, page_no) IN
     IF r.rc # PAGER_OK THEN Bufs(214, 1, 1, 0, 0)
     ELSE IF tbl_validate(r.buf) # TABLE_OK THEN Bufs(217, 1, 1, 0, 0)
     ELSE IF slot_idx >= r.buf.capacity THEN Bufs(221, 1, 1, 0, 0)
     ELSE IF ~tbl_slot_is_used(r.buf, slot_idx) THEN Bufs(226, 1, 1, 0, 0)
     ELSE IF tblmgr_delete(ps, id, f).rc # TABLE_OK THEN Bufs(241, 1, 1, 0, 0)
     ELSE Bufs(243, 1, 1, 0, 0)

RECURSIVE validate_loop_bufs(_, _, _)
validate_loop_bufs(ps, page, fuel) ==
  IF fuel = 0 THEN Bufs(0, 1, 0, 0, 0)
  ELSE IF page = 0 \/ page >= pager_page_count(ps) THEN Bufs(259, 1, 1, 0, 0)
  ELSE LET r == pager_read(ps, page) IN
  IF r.rc # PAGER_OK THEN Bufs(263, 1, 1, 0, 0)
  ELSE IF tbl_validate(r.buf) # TABLE_OK THEN Bufs(267, 1, 1, 0, 0)
  ELSE IF r.buf.next_page = 0 THEN Bufs(284, 1, 1, 0, 0)
  ELSE IF r.buf.next_page >= pager_page_count(ps) THEN Bufs(278, 1, 1, 0, 0)
  ELSE validate_loop_bufs(ps, r.buf.next_page, fuel - 1)

tblmgr_validate_all_bufs(ps, first_page_num, m) ==
  IF first_page_num = 0 THEN Bufs(248, 0, 0, 0, 0)
  ELSE IF m = 1 THEN Bufs(252, 0, 0, 0, 0)
  ELSE validate_loop_bufs(ps, first_page_num, Fuel)

\* Mutant of tblmgr_get_bufs: page 0 is not rejected at the argument check;
\* it is read and fails tbl_validate.
tblmgr_get_bufs_reads_page_zero(ps, id, m) ==
  LET page_no == id_page(id)
      slot_idx == id_slot(id)
  IN IF page_no >= pager_page_count(ps) THEN Bufs(294, 0, 0, 0, 0)
     ELSE IF m = 1 THEN Bufs(298, 0, 0, 0, 0)
     ELSE IF page_no = 0 THEN Bufs(304, 1, 1, 0, 0)
     ELSE LET r == pager_read(ps, page_no) IN
     IF r.rc # PAGER_OK THEN Bufs(301, 1, 1, 0, 0)
     ELSE IF tbl_validate(r.buf) # TABLE_OK THEN Bufs(304, 1, 1, 0, 0)
     ELSE IF slot_idx >= r.buf.capacity THEN Bufs(307, 1, 1, 0, 0)
     ELSE IF ~tbl_slot_is_used(r.buf, slot_idx) THEN Bufs(308, 1, 1, 0, 0)
     ELSE IF ~tbl_slot_ptr_ok(r.buf, slot_idx) THEN Bufs(311, 1, 1, 0, 0)
     ELSE Bufs(315, 1, 1, 0, 0)

tblmgr_get_bufs(ps, id, m) ==
  LET page_no == id_page(id)
      slot_idx == id_slot(id)
  IN IF page_no = 0 \/ page_no >= pager_page_count(ps) THEN Bufs(294, 0, 0, 0, 0)
     ELSE IF m = 1 THEN Bufs(298, 0, 0, 0, 0)
     ELSE LET r == pager_read(ps, page_no) IN
     IF r.rc # PAGER_OK THEN Bufs(301, 1, 1, 0, 0)
     ELSE IF tbl_validate(r.buf) # TABLE_OK THEN Bufs(304, 1, 1, 0, 0)
     ELSE IF slot_idx >= r.buf.capacity THEN Bufs(307, 1, 1, 0, 0)
     ELSE IF ~tbl_slot_is_used(r.buf, slot_idx) THEN Bufs(308, 1, 1, 0, 0)
     ELSE IF ~tbl_slot_ptr_ok(r.buf, slot_idx) THEN Bufs(311, 1, 1, 0, 0)
     ELSE Bufs(315, 1, 1, 0, 0)

\* update frees buf at line 347, before it tests the result of the write.
tblmgr_update_bufs(ps, id, rec, f, m) ==
  LET page_no == id_page(id)
      slot_idx == id_slot(id)
  IN IF page_no = 0 \/ page_no >= pager_page_count(ps) THEN Bufs(325, 0, 0, 0, 0)
     ELSE IF m = 1 THEN Bufs(329, 0, 0, 0, 0)
     ELSE LET r == pager_read(ps, page_no) IN
     IF r.rc # PAGER_OK THEN Bufs(332, 1, 1, 0, 0)
     ELSE IF tbl_validate(r.buf) # TABLE_OK THEN Bufs(335, 1, 1, 0, 0)
     ELSE IF slot_idx >= r.buf.capacity THEN Bufs(338, 1, 1, 0, 0)
     ELSE IF ~tbl_slot_is_used(r.buf, slot_idx) THEN Bufs(339, 1, 1, 0, 0)
     ELSE IF ~tbl_slot_ptr_ok(r.buf, slot_idx) THEN Bufs(342, 1, 1, 0, 0)
     ELSE IF tblmgr_update(ps, id, rec, f).rc # TABLE_OK THEN Bufs(348, 1, 1, 0, 0)
     ELSE Bufs(350, 1, 1, 0, 0)

\* The malloc / calloc call that fails: none, the scratch buffer, newbuf.
AllocFaults == 0..2

\* One failure per call: a write_full call or a malloc / calloc call.
FaultPairs ==
  {<<f, 0>> : f \in WriteFaults} \cup {<<0, m>> : m \in AllocFaults}

\* Every call a caller can make in the current state, with the buffers it
\* has acquired and freed at its return.
CallBufs ==
  {tblmgr_create_bufs(cur, R, fm[1], fm[2]) : R \in Roots, fm \in FaultPairs}
    \cup {tblmgr_insert_bufs(cur, R, P, fm[1], fm[2]) :
            R \in Roots, P \in Payloads, fm \in FaultPairs}
    \cup {tblmgr_get_bufs(cur, id, m) : id \in Ids, m \in AllocFaults}
    \cup {tblmgr_update_bufs(cur, id, P, fm[1], fm[2]) :
            id \in Ids, P \in Payloads, fm \in FaultPairs}
    \cup {tblmgr_delete_bufs(cur, id, fm[1], fm[2]) : id \in Ids, fm \in FaultPairs}
    \cup {tblmgr_scan_bufs(cur, R, stop_at, v, m) :
            R \in Roots, stop_at \in 0..MaxStop, v \in CallbackValues,
            m \in AllocFaults}
    \cup {tblmgr_validate_all_bufs(cur, R, m) : R \in Roots, m \in AllocFaults}

\* The returns that precede the malloc of the scratch buffer (an argument
\* is refused, create cannot allocate its pages) and the returns taken when
\* that malloc fails.
ExitsBeforeScratch ==
  {9, 15, 21, 65, 70, 152, 156, 206, 210, 248, 252, 294, 298, 325, 329}

RECURSIVE ReachesZero(_, _)
ReachesZero(page, seen) ==
  IF page = 0 THEN TRUE
  ELSE IF page \in seen \/ page > Len(pages) THEN FALSE
  ELSE ReachesZero(pages[page].next_page, seen \cup {page})

\* The pages of `before` whose next_page differs in `after`.
Relinked(before, after) ==
  {q \in 1..Len(before) : after[q].next_page # before[q].next_page}

(***************************************************************************)
(* C27  No cycle can be formed: in every file state reached from a freshly *)
(* created file by create, insert, update and delete, following next_page  *)
(* from any leaf page reaches 0 without visiting a page twice.  The only   *)
(* call that changes a next_page is an insert, and it sets the next_page   *)
(* of one page, whose next_page was 0, to the page number it has just      *)
(* allocated (the previous page_count, a page the file did not have).      *)
(***************************************************************************)
C27_NoCycle ==
  /\ \A pg \in 1..Len(pages) :
       pages[pg].kind = TABLE_PAGE_KIND_LEAF => ReachesZero(pg, {})
  /\ \A R \in Roots, P \in Payloads :
       LET r == tblmgr_insert(cur, R, P, 0) IN
       \A q \in Relinked(pages, r.ps.pages) :
         /\ pages[q].next_page = 0
         /\ r.ps.pages[q].next_page = pcount
         /\ pcount = Len(pages) + 1
         /\ Len(r.ps.pages) = pcount
         /\ r.ps.pcount = pcount + 1
         /\ Relinked(pages, r.ps.pages) = {q}
  /\ \A R \in Roots : Relinked(pages, tblmgr_create(cur, R, 0).ps.pages) = {}
  /\ \A id \in Ids :
       /\ Relinked(pages, tblmgr_delete(cur, id, 0).ps.pages) = {}
       /\ \A P \in Payloads :
            Relinked(pages, tblmgr_update(cur, id, P, 0).ps.pages) = {}

\* An update has just rewritten a record of the second page of a two-page
\* chain; the chain still ends at 0.
C27_Witness ==
  /\ last.op = "update" /\ last.rc = TABLE_OK
  /\ Len(pages) = 2 /\ pages[1].next_page = 2 /\ pages[2].next_page = 0
  /\ id_page(last.id) = 2
  /\ ReachesZero(1, {})

\* The iterations of the insert loop from `page`, in order: what each one
\* does ("store": the record is stored and insert returns ok; "advance": on
\* to the next page of the chain; "append": a page is allocated, written as an
\* empty leaf and linked; "error": insert returns an error) and on which page.
\* "fuel" ends the sequence when the model stops following the loop.
RECURSIVE insert_trace(_, _, _, _, _)
insert_trace(ps, page, rec, f, fuel) ==
  IF fuel = 0 THEN <<[step |-> "fuel", page |-> page]>>
  ELSE LET r == pager_read(ps, page) IN
  IF r.rc # PAGER_OK THEN <<[step |-> "error", page |-> page]>>
  ELSE IF tbl_validate(r.buf) # TABLE_OK THEN <<[step |-> "error", page |-> page]>>
  ELSE IF r.buf.used_count < r.buf.capacity
       THEN IF insert_here(ps, page, r.buf, rec, f).rc = TABLE_OK
            THEN <<[step |-> "store", page |-> page]>>
            ELSE <<[step |-> "error", page |-> page]>>
  ELSE IF r.buf.next_page # 0
       THEN <<[step |-> "advance", page |-> page]>>
              \o insert_trace(ps, r.buf.next_page, rec, f, fuel - 1)
  ELSE LET g == insert_grow(ps, page, r.buf, f) IN
       IF g.rc # TABLE_OK THEN <<[step |-> "error", page |-> page]>>
       ELSE <<[step |-> "append", page |-> page]>>
              \o insert_trace(g.ps, g.page_no, rec, f, fuel - 1)

(***************************************************************************)
(* C28  Insert progress: in every reachable state and for every created    *)
(* root, insert terminates and returns ok.  Its loop makes at most one     *)
(* iteration per page of the chain and one more: each iteration but the    *)
(* last advances to the next page of the chain or appends one new page,    *)
(* the last one stores the record; at most one iteration appends a page,   *)
(* and the one that follows it stores the record in the new page.  From    *)
(* any page number the loop ends, with the record stored or an error.      *)
(***************************************************************************)
C28_InsertProgress ==
  /\ \A R \in PageNos, P \in Payloads :
       LET t == insert_trace(cur, R, P, 0, Fuel) IN
       /\ tblmgr_insert(cur, R, P, 0).rc # DIVERGES
       /\ t[Len(t)].step \in {"store", "error"}
  /\ \A R \in roots, P \in Payloads :
       LET chain == Chain(R)
           r == tblmgr_insert(cur, R, P, 0)
           t == insert_trace(cur, R, P, 0, Fuel)
           n == Len(t)
           appends == {k \in 1..n : t[k].step = "append"}
       IN /\ r.rc = TABLE_OK
          /\ insert_loop(cur, R, P, 0, Len(chain) + 1) = r
          /\ n <= Len(chain) + 1
          /\ t[n].step = "store"
          /\ t[n].page = id_page(r.id)
          /\ \A k \in 1..(n - 1) : t[k].step \in {"advance", "append"}
          /\ \A k \in 1..n : k <= Len(chain) => t[k].page = chain[k]
          /\ Cardinality(appends) <= 1
          /\ appends # {}
               => /\ appends = {n - 1}
                  /\ n = Len(chain) + 1
                  /\ t[n].page = pcount
                  /\ Len(r.ps.pages) = Len(pages) + 1
                  /\ r.ps.pcount = pcount + 1
          /\ appends = {}
               => /\ Len(r.ps.pages) = Len(pages)
                  /\ r.ps.pcount = pcount

\* An insert through root 1 has just walked the full page 1, appended
\* page 2 and stored its record there; the next insert walks page 1 and
\* stores in page 2.
C28_Witness ==
  /\ last.op = "insert" /\ last.rc = TABLE_OK /\ last.root = 1 /\ 1 \in roots
  /\ last.id = <<2, 0>> /\ Chain(1) = <<1, 2>>
  /\ insert_trace(cur, 1, 0, 0, Fuel)
       = <<[step |-> "advance", page |-> 1], [step |-> "store", page |-> 2]>>

(***************************************************************************)
(* Insert with a failure of any of its writes.  create may have one of its *)
(* first MaxFault write_full calls fail, insert any of the five it can     *)
(* make, delete the one it makes.                                          *)
(***************************************************************************)
NextLink ==
  \/ \E R \in Roots, f \in Faults : Create(R, f)
  \/ \E R \in Roots, P \in Payloads, f \in WriteFaults : Insert(R, P, f)
  \/ \E id \in Ids, f \in Faults \cap 0..1 : Delete(id, f)

SpecLink == Init /\ [][NextLink]_vars

\* Every non-zero next_page of a page of the file ps names a page below the
\* handle's page_count and below the header's, held by the file, that
\* validates as a leaf.
LinksValid(ps) ==
  \A p \in 1..Len(ps.pages) :
    LET n == ps.pages[p].next_page IN
    n # 0 => /\ n < ps.pcount
             /\ n < ps.hdr.page_count
             /\ n <= Len(ps.pages)
             /\ tbl_validate(ps.pages[n]) = TABLE_OK

\* The insert through R appends a page when none of its writes fails.
Grows(R, P) ==
  \E k \in 1..Len(insert_trace(cur, R, P, 0, Fuel)) :
    insert_trace(cur, R, P, 0, Fuel)[k].step = "append"

\* The last page of the chain of R, the one a growing insert links.
ChainTail(R) == Chain(R)[Len(Chain(R))]

(***************************************************************************)
(* C29  Link ordering: in every state reached with or without a failure    *)
(* of any single write of create, insert or delete, every non-zero         *)
(* next_page names a page < page_count (the handle's and the header's)     *)
(* that validates as a leaf, and so it does in the state any insert        *)
(* leaves, whichever of its writes fails.  An insert that appends a page   *)
(* writes the empty leaf to the new page before it links it: when the      *)
(* write of the new leaf fails the new page holds zeros and the tail's     *)
(* next_page is still 0; when the write of the tail fails the new page is  *)
(* the empty leaf and the tail's next_page is still 0; when it succeeds    *)
(* the tail's next_page is the new page, which is a valid leaf.            *)
(***************************************************************************)
C29_LinkOrdering ==
  /\ LinksValid(cur)
  /\ \A R \in Roots, P \in Payloads, f \in WriteFaults :
       LinksValid(tblmgr_insert(cur, R, P, f).ps)
  /\ \A R \in roots, P \in Payloads :
       Grows(R, P) =>
         LET t == ChainTail(R)
             r3 == tblmgr_insert(cur, R, P, 3)
             r4 == tblmgr_insert(cur, R, P, 4)
             r5 == tblmgr_insert(cur, R, P, 5)
         IN /\ r3.rc # TABLE_OK
            /\ r3.ps.pages[pcount] = ZeroPage
            /\ r3.ps.pages[t].next_page = 0
            /\ r4.rc # TABLE_OK
            /\ r4.ps.pages[pcount] = EmptyLeaf
            /\ r4.ps.pages[t].next_page = 0
            /\ r5.rc # TABLE_OK
            /\ r5.ps.pages[pcount] = EmptyLeaf
            /\ r5.ps.pages[t].next_page = pcount

\* An insert that had to append a page has just failed on the write that
\* links it: the new page 2 is an empty leaf no page links to.
C29_Witness ==
  /\ last.op = "insert" /\ last.rc # TABLE_OK /\ last.root = 1
  /\ pcount = 3 /\ hdr.page_count = 3
  /\ pages[2] = EmptyLeaf
  /\ pages[1].used_count = pages[1].capacity
  /\ pages[1].next_page = 0

(***************************************************************************)
(* The pager, one system call at a time.  pager_open of an empty file and  *)
(* pager_alloc_page change the file in two calls each (write_full of the   *)
(* header then ftruncate; write_full of the page then write_full of the    *)
(* page_count); each call may fail, which leaves the file as it was.  In   *)
(* this specification last.out is st_size, the length of the file in       *)
(* bytes; it starts at 0, a path that does not exist or an empty file.     *)
(***************************************************************************)
st_size == last.out

InitLength ==
  /\ hdr = NoHeader
  /\ pages = <<>>
  /\ pcount = 0
  /\ roots = {}
  /\ live = [i \in {} |-> 0]
  /\ owner = [i \in {} |-> 0]
  /\ last = NoCall

\* A call has made its first change of the file and not yet its second.
InCall == last.op \in {"open: header written", "alloc: page written"}

Step(op, rc, size) == last' = [NoCall EXCEPT !.op = op, !.rc = rc, !.out = size]

\* st0.st_size == 0: write_full(fd, init_hdr, PAGER_HDR_SIZE, 0)
OpenWriteHeader(f) ==
  /\ ~InCall
  /\ pcount = 0
  /\ st_size = 0
  /\ IF f = 1
     THEN /\ Step("open", PAGER_E_IO, st_size)
          /\ UNCHANGED <<hdr, pages, pcount>>
     ELSE /\ hdr' = FreshHeader
          /\ Step("open: header written", PAGER_OK, PAGER_HDR_SIZE)
          /\ UNCHANGED <<pages, pcount>>
  /\ UNCHANGED <<roots, live, owner>>

\* What pager_open does once the file is not empty: the header is read and
\* validated and the length compared with page_size * page_count.
open_check(h, size) ==
  IF size < PAGER_HDR_SIZE THEN PAGER_E_IO
  ELSE IF validate_header(h) # PAGER_OK THEN validate_header(h)
  ELSE IF size < h.page_size * h.page_count THEN PAGER_E_TRUNCATED
  ELSE PAGER_OK

\* ftruncate(fd, PAGER_PAGE_SIZE), then the rest of pager_open.  When
\* ftruncate fails pager_open closes the file and returns PAGER_E_IO.
OpenTruncate(t) ==
  /\ last.op = "open: header written"
  /\ IF t = 1
     THEN /\ Step("open", PAGER_E_IO, st_size)
          /\ UNCHANGED <<hdr, pages, pcount>>
     ELSE LET rc == open_check(hdr, PAGER_PAGE_SIZE) IN
          /\ pcount' = IF rc = PAGER_OK THEN hdr.page_count ELSE 0
          /\ Step("open", rc, PAGER_PAGE_SIZE)
          /\ UNCHANGED <<hdr, pages>>
  /\ UNCHANGED <<roots, live, owner>>

\* pager_open of a file that is not empty.
OpenExisting ==
  LET rc == open_check(hdr, st_size) IN
  /\ ~InCall
  /\ pcount = 0
  /\ st_size > 0
  /\ pcount' = IF rc = PAGER_OK THEN hdr.page_count ELSE 0
  /\ Step("open", rc, st_size)
  /\ UNCHANGED <<hdr, pages, roots, live, owner>>

CloseHandle ==
  /\ ~InCall
  /\ pcount > 0
  /\ pcount' = 0
  /\ Step("close", 0, st_size)
  /\ UNCHANGED <<hdr, pages, roots, live, owner>>

\* write_full(fd, buffer, page_size, new_no * page_size): the file grows
\* when the page lies at or after its end.
AllocWritePage(f) ==
  /\ ~InCall
  /\ pcount > 0
  /\ pcount <= MaxPages
  /\ IF f = 1
     THEN /\ Step("alloc", PAGER_E_IO, st_size)
          /\ UNCHANGED pages
     ELSE /\ pages' = IF pcount = Len(pages) + 1 THEN Append(pages, ZeroPage)
                      ELSE [pages EXCEPT ![pcount] = ZeroPage]
          /\ Step("alloc: page written", PAGER_OK,
                  IF st_size < (pcount + 1) * PAGER_PAGE_SIZE
                  THEN (pcount + 1) * PAGER_PAGE_SIZE ELSE st_size)
  /\ UNCHANGED <<hdr, pcount, roots, live, owner>>

\* p->page_count + 1, then write_full(fd, hdr_count, 4, HDR_PAGECOUNT_OFF).
AllocWriteCount(f) ==
  /\ last.op = "alloc: page written"
  /\ pcount' = pcount + 1
  /\ IF f = 1
     THEN /\ Step("alloc", PAGER_E_IO, st_size)
          /\ UNCHANGED hdr
     ELSE /\ hdr' = [hdr EXCEPT !.page_count = pcount + 1]
          /\ Step("alloc", PAGER_OK, st_size)
  /\ UNCHANGED <<pages, roots, live, owner>>

\* pager_write of a page after page 0.
WritePage(page_no, buf, f) ==
  LET w == pager_write(cur, page_no, buf, f) IN
  /\ ~InCall
  /\ pcount > 0
  /\ SetFile(w.ps)
  /\ Step("write", w.rc, st_size)
  /\ UNCHANGED <<roots, live, owner>>

NextLength ==
  \/ \E f \in 0..1 : OpenWriteHeader(f)
  \/ \E t \in 0..1 : OpenTruncate(t)
  \/ OpenExisting
  \/ CloseHandle
  \/ \E f \in 0..1 : AllocWritePage(f)
  \/ \E f \in 0..1 : AllocWriteCount(f)
  \/ \E page_no \in 1..MaxPages, buf \in SampleBufs, f \in 0..1 :
       WritePage(page_no, buf, f)

SpecLength == InitLength /\ [][NextLength]_vars

\* Once the file holds a whole page, its length is that of the header page
\* and the pages after it.
LengthAgrees ==
  st_size >= PAGER_PAGE_SIZE => st_size = file_size(disk)

\* The part of C30 about pager_alloc_page: while a handle is open, between
\* the two writes of alloc_page, after a failure of either and after close,
\* the file is at least page_count * 4096 bytes long.
AllocKeepsLength ==
  (pcount > 0 \/ last.op \in {"alloc", "alloc: page written", "write", "close"})
    => st_size >= hdr.page_count * PAGER_PAGE_SIZE

\* alloc_page has written the page and failed to write the page_count: the
\* file is one page longer than the header says.
AllocCountFailed ==
  /\ last.op = "alloc" /\ last.rc = PAGER_E_IO
  /\ pcount = hdr.page_count + 1
  /\ st_size = pcount * PAGER_PAGE_SIZE

(***************************************************************************)
(* C30 (as claimed)  File length never lags the header: at any time the    *)
(* file has a header, between the calls that change it and after a         *)
(* failure of any of them, the file length is at least the on-disk         *)
(* page_count times 4096.                                                  *)
(***************************************************************************)
C30_FileLength ==
  hdr # NoHeader => st_size >= hdr.page_count * PAGER_PAGE_SIZE

\* The position of page p in a chain that holds it.
PosIn(chain, p) == CHOOSE k \in 1..Len(chain) : chain[k] = p

\* Call b comes after call a in visitation order: a later page of the chain,
\* or the same page and a higher slot.
VisitedAfter(chain, a, b) ==
  \/ PosIn(chain, id_page(a)) < PosIn(chain, id_page(b))
  \/ id_page(a) = id_page(b) /\ id_slot(a) < id_slot(b)

(***************************************************************************)
(* C31  Scan order: in every reachable state, for every root and every     *)
(* callback (one that always returns 0 or one that stops the scan at any   *)
(* call), the calls scan makes are for set slots of pages of the chain     *)
(* from the root; the first page called for is the first page of the chain *)
(* that holds a record; each call is for a later page of the chain than    *)
(* the call before it, or for the same page and a higher slot.             *)
(***************************************************************************)
C31_ScanOrder ==
  \A R \in PageNos, stop_at \in 0..MaxStop :
    LET calls == tblmgr_scan(cur, R, stop_at, 7).calls
        chain == Chain(R)
    IN /\ \A k \in 1..Len(calls) :
            /\ id_page(calls[k].id) \in ChainPages(R)
            /\ id_slot(calls[k].id) < Cap
            /\ tbl_slot_is_used(pages[id_page(calls[k].id)], id_slot(calls[k].id))
       /\ \A k \in 1..(Len(calls) - 1) :
            VisitedAfter(chain, calls[k].id, calls[k + 1].id)
       /\ calls # <<>> =>
            \A j \in 1..(PosIn(chain, id_page(calls[1].id)) - 1) :
              pages[chain[j]].used_count = 0

\* A scan of root 1 has just called the callback for both slots of page 1
\* and then for a slot of page 2.
C31_Witness ==
  /\ last.op = "scan" /\ last.root = 1 /\ last.rc = TABLE_OK
  /\ Len(last.calls) = Cap + 1
  /\ last.calls[1].id = <<1, 0>>
  /\ last.calls[2].id = <<1, 1>>
  /\ id_page(last.calls[3].id) = 2
  /\ Chain(1) = <<1, 2>>

\* The least element of a non-empty set of naturals.
Least(S) == CHOOSE x \in S : \A y \in S : x <= y

\* The positions in the chain of R of the pages with used_count < capacity.
RoomIn(R) ==
  {k \in 1..Len(Chain(R)) :
     pages[Chain(R)[k]].used_count < pages[Chain(R)[k]].capacity}

\* Where the claim places the next record inserted through R: the lowest
\* free slot of the first page of the chain with room, or slot 0 of the page
\* appended to the chain when every page is full.
Placement(R) ==
  IF RoomIn(R) = {} THEN <<pcount, 0>>
  ELSE LET q == Chain(R)[Least(RoomIn(R))] IN <<q, Least(FreeSlots(pages[q]))>>

(***************************************************************************)
(* C32  Insert placement: in every reachable state, insert(R, P) on a      *)
(* created root returns ok, and the id it returns and the slot that holds  *)
(* P afterwards are the lowest free slot of the first page in chain order  *)
(* from R that has used_count < capacity (slot 0 of the appended page when *)
(* no page has room).  Right after a successful delete(id) of a record in  *)
(* page q, for every created root whose chain holds q: when no earlier     *)
(* page of the chain has room and no lower slot of q is free, insert       *)
(* returns id again.                                                       *)
(***************************************************************************)
C32_InsertPlacement ==
  /\ \A R \in roots, P \in Payloads :
       LET r == tblmgr_insert(cur, R, P, 0) IN
       /\ r.rc = TABLE_OK
       /\ r.id = Placement(R)
       /\ r.ps.pages[id_page(r.id)].slots[id_slot(r.id)] = P
       /\ Bit(r.ps.pages[id_page(r.id)], id_slot(r.id))
  /\ (last.op = "delete" /\ last.rc = TABLE_OK) =>
       \A R \in roots, P \in Payloads :
         LET q == id_page(last.id) IN
         (/\ q \in ChainPages(R)
          /\ \A k \in RoomIn(R) : k >= PosIn(Chain(R), q)
          /\ \A s \in FreeSlots(pages[q]) : s >= id_slot(last.id))
           => tblmgr_insert(cur, R, P, 0).id = last.id

\* The record in slot 0 of page 1 has just been deleted while slot 1 and
\* page 2 of the chain of root 1 hold records: the next insert through root 1
\* returns (1, 0) again.
C32_Witness ==
  /\ last.op = "delete" /\ last.rc = TABLE_OK /\ last.id = <<1, 0>>
  /\ 1 \in roots /\ Chain(1) = <<1, 2>>
  /\ Bit(pages[1], 1) /\ pages[2].used_count > 0
  /\ tblmgr_insert(cur, 1, 1, 0).id = <<1, 0>>

\* The page numbers tblmgr_scan passes to pager_read, in order, with a
\* callback that always returns 0.
RECURSIVE scan_reads(_, _, _)
scan_reads(ps, page, fuel) ==
  IF fuel = 0 THEN <<>>
  ELSE LET r == pager_read(ps, page) IN
  <<page>> \o
    (IF r.rc # PAGER_OK THEN <<>>
     ELSE IF tbl_validate(r.buf) # TABLE_OK THEN <<>>
     ELSE IF r.buf.next_page >= pager_page_count(ps) /\ r.buf.next_page # 0 THEN <<>>
     ELSE IF r.buf.next_page = 0 THEN <<>>
     ELSE scan_reads(ps, r.buf.next_page, fuel - 1))

\* The page numbers tblmgr_validate_all passes to pager_read, in order.
RECURSIVE validate_reads(_, _, _)
validate_reads(ps, page, fuel) ==
  IF fuel = 0 THEN <<>>
  ELSE IF page = 0 \/ page >= pager_page_count(ps) THEN <<>>
  ELSE LET r == pager_read(ps, page) IN
  <<page>> \o
    (IF r.rc # PAGER_OK THEN <<>>
     ELSE IF tbl_validate(r.buf) # TABLE_OK THEN <<>>
     ELSE IF r.buf.next_page = 0 THEN <<>>
     ELSE IF r.buf.next_page >= pager_page_count(ps) THEN <<>>
     ELSE validate_reads(ps, r.buf.next_page, fuel - 1))

\* The calls of pager_read that reach read_full: pager_read returns
\* PAGER_E_RANGE before it for page_no >= page_count.
FileReads(ps, calls) ==
  SelectSeq(calls, LAMBDA p : pager_read(ps, p).rc # PAGER_E_RANGE)

\* Every page of the chain from R that the file holds passes tbl_validate
\* and the last of them has a non-zero next_page >= page_count.
ChainLeavesFile(R) ==
  LET chain == Chain(R) IN
  /\ chain # <<>>
  /\ Len(chain) < Fuel
  /\ \A k \in 1..Len(chain) : tbl_validate(pages[chain[k]]) = TABLE_OK
  /\ pages[chain[Len(chain)]].next_page >= pcount

\* The roots a caller passes, one of them past any page_count.
AnyRoots == 1..(MaxPages + 1)

\* Scans and validations of the chains of a file opened with any page
\* contents, between creates.
NextChain ==
  \/ \E R \in Roots : Create(R, 0)
  \/ \E R \in {0} \cup AnyRoots : Scan(R, 0, 0)
  \/ \E R \in {0} \cup AnyRoots : ValidateAll(R)

SpecChain == InitOpen /\ [][NextChain]_vars

(***************************************************************************)
(* C33  Out-of-range chain pointers are a layout error: on a file opened   *)
(* with any page contents, for every root >= 1, validate_all passes to     *)
(* pager_read only pages with 1 <= page < page_count and returns the       *)
(* layout error for a root >= page_count and for a chain of valid leaves   *)
(* whose last next_page is >= page_count; scan returns the layout error    *)
(* for such a chain, an error for a root >= page_count, and reads no page  *)
(* >= page_count from the file.                                            *)
(***************************************************************************)
C33_RangeIsLayoutError ==
  \A R \in AnyRoots :
    LET vreads == validate_reads(cur, R, Fuel)
        sreads == FileReads(cur, scan_reads(cur, R, Fuel))
    IN /\ \A k \in 1..Len(vreads) : 1 <= vreads[k] /\ vreads[k] < pcount
       /\ \A k \in 1..Len(sreads) : 1 <= sreads[k] /\ sreads[k] < pcount
       /\ R >= pcount =>
            /\ tblmgr_validate_all(cur, R) = TABLE_E_LAYOUT
            /\ vreads = <<>>
            /\ ScanAll(R).rc \notin {TABLE_OK, DIVERGES}
            /\ ScanAll(R).calls = <<>>
            /\ sreads = <<>>
       /\ ChainLeavesFile(R) =>
            /\ tblmgr_validate_all(cur, R) = TABLE_E_LAYOUT
            /\ ScanAll(R).rc = TABLE_E_LAYOUT
            /\ vreads = Chain(R)
            /\ sreads = Chain(R)

\* The file has two pages: page 1 is a valid leaf whose next_page is 2, the
\* page_count.  validate_all of root 1 has just returned the layout error, and so
\* does scan.
C33_Witness ==
  /\ pcount = 2
  /\ tbl_validate(pages[1]) = TABLE_OK /\ pages[1].next_page = 2
  /\ last.op = "validate_all" /\ last.root = 1 /\ last.rc = TABLE_E_LAYOUT
  /\ ScanAll(1).rc = TABLE_E_LAYOUT

(***************************************************************************)
(* C34  Frame of update and delete: in every reachable state and for every *)
(* id, a successful update(id, P) leaves the file as it was except for the *)
(* payload of the addressed slot, which is P; a successful delete(id)      *)
(* leaves the file as it was except for the addressed slot's payload (0),  *)
(* its bitmap bit (cleared) and the page's used_count (one less).          *)
(* next_page, every other slot and bit, every other page, the header and   *)
(* page_count are unchanged.                                               *)
(***************************************************************************)
C34_UpdateDeleteFrame ==
  \A id \in Ids :
    LET q == id_page(id)
        s == id_slot(id)
    IN /\ \A P \in Payloads :
            LET u == tblmgr_update(cur, id, P, 0) IN
            u.rc = TABLE_OK =>
              /\ u.ps.pages = [pages EXCEPT ![q].slots[s] = P]
              /\ u.ps.hdr = hdr
              /\ u.ps.pcount = pcount
       /\ LET d == tblmgr_delete(cur, id, 0) IN
          d.rc = TABLE_OK =>
            /\ Bit(pages[q], s)
            /\ d.ps.pages = [pages EXCEPT ![q].slots[s] = 0,
                                          ![q].used_count = @ - 1,
                                          ![q].bm[s \div 8] = @ - Pow2(s % 8)]
            /\ d.ps.hdr = hdr
            /\ d.ps.pcount = pcount

\* A record of page 1 has just been deleted while page 1 is linked to page 2
\* and both hold other records, which an update or a delete can address.
C34_Witness ==
  /\ last.op = "delete" /\ last.rc = TABLE_OK /\ id_page(last.id) = 1
  /\ pages[1].next_page = 2 /\ pages[1].used_count = 1
  /\ pages[2].used_count > 0
  /\ \E id \in Ids : /\ tblmgr_update(cur, id, 1, 0).rc = TABLE_OK
                     /\ tblmgr_delete(cur, id, 0).rc = TABLE_OK

\* Sequence a is the beginning of sequence b.
IsPrefix(a, b) == Len(a) <= Len(b) /\ \A k \in 1..Len(a) : a[k] = b[k]

\* From file state `before` to file state `after`: no page_count decreases,
\* no page is lost, no non-zero next_page changes, and the chain from every
\* page keeps its pages at their positions.
AppendOnly(before, after) ==
  /\ after.pcount >= before.pcount
  /\ after.hdr.page_count >= before.hdr.page_count
  /\ Len(after.pages) >= Len(before.pages)
  /\ \A q \in 1..Len(before.pages) :
       before.pages[q].next_page # 0
         => after.pages[q].next_page = before.pages[q].next_page
  /\ \A R \in PageNos :
       IsPrefix(ChainFrom(before, R, Fuel), ChainFrom(after, R, Fuel))

\* The next_page field of every page of `before` is the same in `after`, and
\* a page `after` has more has next_page 0.
SameLinks(before, after) ==
  /\ \A q \in 1..Len(before.pages) :
       after.pages[q].next_page = before.pages[q].next_page
  /\ \A q \in (Len(before.pages) + 1)..Len(after.pages) :
       after.pages[q].next_page = 0

(***************************************************************************)
(* C35  Append-only structure: from every state reached with or without    *)
(* write failures, every create, insert, update and delete, whichever of   *)
(* its writes fails, leaves page_count (the handle's and the header's) at  *)
(* least what it was, every non-zero next_page as it was and every chain   *)
(* with the pages it had at the positions they had; create, update and     *)
(* delete change no next_page at all, and a page whose last record is      *)
(* deleted keeps its next_page.  An insert changes at most one next_page,  *)
(* from 0 to the page it has appended.                                     *)
(***************************************************************************)
C35_AppendOnly ==
  /\ \A R \in Roots, f \in WriteFaults :
       LET r == tblmgr_create(cur, R, f) IN
       AppendOnly(cur, r.ps) /\ SameLinks(cur, r.ps)
  /\ \A R \in Roots, P \in Payloads, f \in WriteFaults :
       LET r == tblmgr_insert(cur, R, P, f) IN
       /\ AppendOnly(cur, r.ps)
       /\ Cardinality(Relinked(pages, r.ps.pages)) <= 1
       /\ \A q \in Relinked(pages, r.ps.pages) :
            /\ pages[q].next_page = 0
            /\ r.ps.pages[q].next_page = Len(pages) + 1
            /\ Len(r.ps.pages) = Len(pages) + 1
  /\ \A id \in Ids, f \in 0..1 :
       /\ LET d == tblmgr_delete(cur, id, f) IN
          AppendOnly(cur, d.ps) /\ SameLinks(cur, d.ps)
       /\ \A P \in Payloads :
            LET u == tblmgr_update(cur, id, P, f) IN
            AppendOnly(cur, u.ps) /\ SameLinks(cur, u.ps)

\* The last record of page 1 has just been deleted: page 1 holds no record
\* and is still linked to page 2, which holds one.
C35_Witness ==
  /\ last.op = "delete" /\ last.rc = TABLE_OK /\ id_page(last.id) = 1
  /\ pages[1].used_count = 0 /\ pages[1].next_page = 2
  /\ pages[2].used_count > 0
  /\ 1 \in roots /\ Chain(1) = <<1, 2>>

\* The header h1 differs from h0 in its page_count field at most.
SameButCount(h0, h1) == [h1 EXCEPT !.page_count = h0.page_count] = h0

\* The ids of page 0.
PageZeroIds == {<<0, s>> : s \in 0..Cap}

(***************************************************************************)
(* C36  Page 0 is never a table page: in every state reached with or       *)
(* without write failures, create, insert, scan and validate_all with      *)
(* root 0 and get, update and delete with an id of page 0 return an error  *)
(* at their argument check, the first return of the function: before the   *)
(* scratch buffer is allocated, so before any page is read, and with no    *)
(* write, the file and the handle being left as they were.  No create,     *)
(* insert, update or delete, whatever its arguments and whichever of its   *)
(* writes fails, changes the header of page 0 other than its page_count,   *)
(* and page_count changes only when a page has been allocated.             *)
(***************************************************************************)
C36_PageZero ==
  /\ \A f \in WriteFaults, m \in AllocFaults, P \in Payloads :
       /\ tblmgr_create(cur, 0, f) = [rc |-> TABLE_E_INVAL, ps |-> cur]
       /\ tblmgr_create_bufs(cur, 0, f, m) = Bufs(9, 0, 0, 0, 0)
       /\ tblmgr_insert(cur, 0, P, f) = [rc |-> TABLE_E_INVAL, ps |-> cur, id |-> NoId]
       /\ tblmgr_insert_bufs(cur, 0, P, f, m) = Bufs(65, 0, 0, 0, 0)
       /\ tblmgr_scan(cur, 0, 0, 0) = [rc |-> TABLE_E_INVAL, calls |-> <<>>]
       /\ tblmgr_scan_bufs(cur, 0, 0, 0, m) = Bufs(152, 0, 0, 0, 0)
       /\ tblmgr_validate_all(cur, 0) = TABLE_E_INVAL
       /\ tblmgr_validate_all_bufs(cur, 0, m) = Bufs(248, 0, 0, 0, 0)
       /\ \A id \in PageZeroIds :
            /\ tblmgr_get(cur, id).rc = TABLE_E_INVAL
            /\ ~tblmgr_get(cur, id).written
            /\ tblmgr_get_bufs(cur, id, m) = Bufs(294, 0, 0, 0, 0)
            /\ tblmgr_update(cur, id, P, f) = [rc |-> TABLE_E_INVAL, ps |-> cur]
            /\ tblmgr_update_bufs(cur, id, P, f, m) = Bufs(325, 0, 0, 0, 0)
            /\ tblmgr_delete(cur, id, f) = [rc |-> TABLE_E_INVAL, ps |-> cur]
            /\ tblmgr_delete_bufs(cur, id, f, m) = Bufs(206, 0, 0, 0, 0)
  /\ \A f \in WriteFaults :
       /\ \A R \in Roots :
            LET r == tblmgr_create(cur, R, f) IN
            /\ SameButCount(hdr, r.ps.hdr)
            /\ r.ps.hdr # hdr => r.ps.pcount > pcount
       /\ \A R \in Roots, P \in Payloads :
            LET r == tblmgr_insert(cur, R, P, f) IN
            /\ SameButCount(hdr, r.ps.hdr)
            /\ r.ps.hdr # hdr => r.ps.pcount > pcount
       /\ \A id \in Ids, P \in Payloads :
            /\ tblmgr_update(cur, id, P, f).ps.hdr = hdr
            /\ tblmgr_delete(cur, id, f).ps.hdr = hdr

\* An insert with root 0 has just returned the error on a file that holds a
\* table of two pages; nothing changed.
C36_Witness ==
  /\ last.op = "insert" /\ last.root = 0 /\ last.rc = TABLE_E_INVAL
  /\ 1 \in roots /\ Chain(1) = <<1, 2>>
  /\ hdr = [FreshHeader EXCEPT !.page_count = 3]

\* The calls scan(R) makes on file state ps with a callback that always
\* returns 0: the (id, payload) pairs it reports, in order.
Reported(ps, R) == tblmgr_scan(ps, R, 0, 0).calls

\* What scan of every root did before a call (base[R]) it does on file
\* state `after`: the same pairs in the same order, and ok when it returned
\* ok.
SameScans(base, after) ==
  \A R \in PageNos :
    LET s == tblmgr_scan(after, R, 0, 0) IN
    /\ s.calls = base[R].calls
    /\ base[R].rc = TABLE_OK => s.rc = TABLE_OK

\* The file and the handle of a pager state.
FileOf(ps) == [hdr |-> ps.hdr, pages |-> ps.pages, pcount |-> ps.pcount, nw |-> 0]

\* The file states in which an insert, a delete or an update that returns an
\* error can leave the current file, for any argument and failing write.
FailedOutcomes ==
  {FileOf(tblmgr_insert(cur, R, P, f).ps) :
     <<R, P, f>> \in {x \in Roots \X Payloads \X WriteFaults :
                       tblmgr_insert(cur, x[1], x[2], x[3]).rc # TABLE_OK}}
  \cup
  {FileOf(tblmgr_delete(cur, id, f).ps) :
     <<id, f>> \in {x \in Ids \X Faults :
                      tblmgr_delete(cur, x[1], x[2]).rc # TABLE_OK}}
  \cup
  {FileOf(tblmgr_update(cur, id, P, f).ps) :
     <<id, P, f>> \in {x \in Ids \X Payloads \X (0..1) :
                         tblmgr_update(cur, x[1], x[2], x[3]).rc # TABLE_OK}}

(***************************************************************************)
(* C37  Failed operations do not change what a table contains: from every  *)
(* state reached with or without write failures, when insert, update or    *)
(* delete returns an error, for any argument and whichever of its writes   *)
(* fails (a page allocation included), scan of every root reports the same *)
(* (id, payload) pairs as before the call, in the same order.              *)
(***************************************************************************)
C37_FailedOpsKeepContents ==
  LET base == [R \in PageNos |-> tblmgr_scan(cur, R, 0, 0)] IN
  \A after \in FailedOutcomes : SameScans(base, after)

\* An insert that had to append a page has just failed on its last write,
\* that of the record, after the new page 2 was linked: scan of root 1
\* reports the records of page 1 only, as before.
C37_Witness ==
  /\ last.op = "insert" /\ last.rc # TABLE_OK /\ last.root = 1
  /\ 1 \in roots /\ Chain(1) = <<1, 2>>
  /\ pages[2] = EmptyLeaf
  /\ Len(Reported(cur, 1)) = Cap

\* Neither of the two roots lies on the chain of the other.
Apart(R1, R2) == R1 \notin ChainPages(R2) /\ R2 \notin ChainPages(R1)

(***************************************************************************)
(* C38 (as claimed)  Table isolation: after any sequence of create,        *)
(* insert, update and delete, the chains of two roots on which create      *)
(* returned ok share no page; a record inserted through one of them is not *)
(* visited by scan of the other, and an insert through one does not change *)
(* what scan of the other reports.                                         *)
(***************************************************************************)
C38_TableIsolation ==
  \A R1 \in roots : \A R2 \in roots \ {R1} :
    /\ ChainPages(R1) \cap ChainPages(R2) = {}
    /\ \A id \in DOMAIN live : owner[id] = R1 => id \notin ScanIds(R2)
    /\ \A P \in Payloads :
         tblmgr_scan(tblmgr_insert(cur, R2, P, 0).ps, R1, 0, 0) = ScanAll(R1)

(***************************************************************************)
(* C38 (amended)  The chains of two created roots share a page only when   *)
(* one of the roots lies on the chain of the other.  When neither does,    *)
(* the chains share no page, a record inserted through one root is not     *)
(* visited by scan of the other, and an insert through one root does not   *)
(* change what scan of the other reports.                                  *)
(***************************************************************************)
C38_IsolationOfApartRoots ==
  \A R1 \in roots : \A R2 \in roots \ {R1} :
    /\ ChainPages(R1) \cap ChainPages(R2) # {} => ~Apart(R1, R2)
    /\ Apart(R1, R2) =>
         /\ ChainPages(R1) \cap ChainPages(R2) = {}
         /\ \A id \in DOMAIN live : owner[id] = R1 => id \notin ScanIds(R2)
         /\ \A P \in Payloads :
              LET r == tblmgr_insert(cur, R2, P, 0) IN
              /\ r.rc = TABLE_OK
              /\ tblmgr_scan(r.ps, R1, 0, 0) = ScanAll(R1)

\* Roots 1 and 2 were created apart and each holds records; an insert
\* through root 2 has just returned ok.
C38_Witness ==
  /\ roots = {1, 2} /\ Apart(1, 2)
  /\ last.op = "insert" /\ last.root = 2 /\ last.rc = TABLE_OK
  /\ ScanIds(1) # {} /\ ScanIds(2) # {}
  /\ \A id \in ScanIds(1) : owner[id] = 1

(***************************************************************************)
(* Two tables far apart.  create(lo) and create(hi) have returned ok on a  *)
(* fresh file, lo < hi, which has hi + 1 pages; the pages between the two  *)
(* roots are pages of zeros and are not held in the state: pages[1] is     *)
(* page lo and pages[2] is page hi.  The calls are inserts through the two *)
(* roots while their pages have room.                                      *)
(***************************************************************************)
FarRoots ==
  {<<lo, hi>> \in (1..MaxWide) \X (1..(TwoTo16 + MaxWide)) :
     hi \in {lo + 1, lo + TwoTo16 - 1, lo + TwoTo16}}

InitFar ==
  /\ \E r \in FarRoots :
       /\ roots = {r[1], r[2]}
       /\ pcount = r[2] + 1
       /\ hdr = [FreshHeader EXCEPT !.page_count = r[2] + 1]
  /\ pages = <<EmptyLeaf, EmptyLeaf>>
  /\ live = [i \in {} |-> 0]
  /\ owner = [i \in {} |-> 0]
  /\ last = NoCall

\* Where the state holds page R, one of the two roots.
FarIndex(R) == IF \A S \in roots : R <= S THEN 1 ELSE 2

\* The iteration of the insert loop on a page with room: the record goes to
\* the lowest free slot, the bit is set and *out_id = (page << 16) | idx.
far_insert(buf, page, rec) ==
  LET idx == tbl_slot_find_free(buf) IN
  IF tbl_validate(buf) # TABLE_OK THEN [rc |-> tbl_validate(buf), page |-> buf, id |-> NoId]
  ELSE IF idx < 0 THEN [rc |-> TABLE_E_LAYOUT, page |-> buf, id |-> NoId]
  ELSE IF ~tbl_slot_ptr_ok(buf, idx) THEN [rc |-> TABLE_E_INVAL, page |-> buf, id |-> NoId]
  ELSE [rc |-> TABLE_OK,
        page |-> tbl_slot_mark_used(slot_store(buf, idx, rec), idx).page,
        id |-> record_id(page, idx)]

HasRoom(R) == pages[FarIndex(R)].used_count < pages[FarIndex(R)].capacity

InsertFar(R, P) ==
  LET r == far_insert(pages[FarIndex(R)], R, P) IN
  /\ R \in roots
  /\ HasRoom(R)
  /\ pages' = [pages EXCEPT ![FarIndex(R)] = r.page]
  /\ live' = IF r.rc = TABLE_OK THEN MapPut(live, r.id, P) ELSE live
  /\ owner' = IF r.rc = TABLE_OK THEN MapPut(owner, r.id, R) ELSE owner
  /\ last' = [NoCall EXCEPT !.op = "insert", !.root = R, !.rec = P,
                            !.rc = r.rc, !.id = r.id]
  /\ UNCHANGED <<hdr, pcount, roots>>

NextFar == \E R \in 1..(TwoTo16 + MaxWide), P \in Payloads : InsertFar(R, P)

SpecFar == InitFar /\ [][NextFar]_vars

\* In the files whose pages all lie below the 16-bit boundary of the id:
\* no insert returns an id that is live.
FreshIdsBelowBoundary ==
  \A R \in Roots, P \in Payloads :
    LET r == tblmgr_insert(cur, R, P, 0) IN
    r.rc = TABLE_OK => r.id \notin DOMAIN live

(***************************************************************************)
(* C39 (as claimed)  Live ids are unique: a successful insert never        *)
(* returns an id that is currently live, that is, returned by an earlier   *)
(* successful insert on any root and not deleted since.                    *)
(***************************************************************************)
C39_LiveIdsUnique ==
  \A R \in roots, P \in Payloads :
    HasRoom(R) =>
      LET r == far_insert(pages[FarIndex(R)], R, P) IN
      r.rc = TABLE_OK => r.id \notin DOMAIN live

(***************************************************************************)
(* C40  scan and validate_all agree on chain health: on a file opened with *)
(* any page contents and for every root, validate_all returns ok iff scan  *)
(* with a callback that always returns 0 returns ok, and one does not      *)
(* return iff the other does not.  Both stop at the same page: they have   *)
(* read the same pages from the file, in the same order.  For a root below *)
(* page_count they return the same code.                                   *)
(***************************************************************************)
C40_ScanValidateAgree ==
  \A R \in {0} \cup AnyRoots :
    LET v == tblmgr_validate_all(cur, R)
        s == ScanAll(R)
    IN /\ (v = TABLE_OK) <=> (s.rc = TABLE_OK)
       /\ (v = DIVERGES) <=> (s.rc = DIVERGES)
       /\ R >= 1 =>
            validate_reads(cur, R, Fuel) = FileReads(cur, scan_reads(cur, R, Fuel))
       /\ R < pcount => v = s.rc

\* A scan of root 1 has just failed on page 2, which page 1 links to and
\* which does not validate; validate_all fails on it with the same code.
C40_Witness ==
  /\ last.op = "scan" /\ last.root = 1
  /\ last.rc \in {TABLE_E_BADKIND, TABLE_E_LAYOUT, TABLE_E_BITMAP}
  /\ pcount = 3
  /\ tbl_validate(pages[1]) = TABLE_OK /\ pages[1].next_page = 2
  /\ tbl_validate(pages[2]) = last.rc
  /\ tblmgr_validate_all(cur, 1) = last.rc
  /\ validate_reads(cur, 1, Fuel) = <<1, 2>>

====
